---- MODULE Spec2Model ----
(***************************************************************************)
(* Model of the groq message-moderation helper of talentpitch-tools-go:   *)
(* NewClient, Client.CheckMessageContent / FilterMessageWithAI, the       *)
(* blocked-term matcher and the "acceptable" validator adapter.           *)
(*                                                                         *)
(* Go strings are modelled as sequences of one-character strings over     *)
(* ASCII, so that the byte-indexed code (message[i], len(term)) and the   *)
(* rune-based helpers (strings.ToLower, strings.TrimSpace) coincide.  A   *)
(* character that has no escape in a TLA+ string is written as a token:   *)
(* "<VT>" is U+000B, "<BS>" is U+0008, and so on for the control          *)
(* characters; a character behind ASCII, which only the decoding of a     *)
(* \uXXXX escape of JSON brings in, is "<U+00E9>".                        *)
(***************************************************************************)
EXTENDS Integers, Sequences, FiniteSets, TLC

\* The nil pointer / nil slice / nil error of the Go code.
NIL == "nil"

-----------------------------------------------------------------------------
(* Package strings, as far as the repository uses it.                      *)

UpperLetters == <<"A","B","C","D","E","F","G","H","I","J","K","L","M",
                  "N","O","P","Q","R","S","T","U","V","W","X","Y","Z">>

LowerLetters == <<"a","b","c","d","e","f","g","h","i","j","k","l","m",
                  "n","o","p","q","r","s","t","u","v","w","x","y","z">>

Digits == <<"0","1","2","3","4","5","6","7","8","9">>

Range(f) == { f[i] : i \in DOMAIN f }

\* unicode.ToLower on one ASCII character.
ToLowerChar(c) ==
    IF c \in Range(UpperLetters)
    THEN LowerLetters[CHOOSE i \in DOMAIN UpperLetters : UpperLetters[i] = c]
    ELSE c

\* strings.ToLower
ToLower(s) == [i \in 1..Len(s) |-> ToLowerChar(s[i])]

\* unicode.IsSpace on ASCII: '\t', '\n', '\v', '\f', '\r', ' '.
IsSpace(c) == c \in {" ", "\t", "\n", "<VT>", "\f", "\r"}

RECURSIVE TrimLeftSpace(_)
TrimLeftSpace(s) ==
    IF s # <<>> /\ IsSpace(Head(s)) THEN TrimLeftSpace(Tail(s)) ELSE s

RECURSIVE TrimRightSpace(_)
TrimRightSpace(s) ==
    IF s # <<>> /\ IsSpace(s[Len(s)])
    THEN TrimRightSpace(SubSeq(s, 1, Len(s) - 1))
    ELSE s

\* strings.TrimSpace
TrimSpace(s) == TrimRightSpace(TrimLeftSpace(s))

\* strings.HasPrefix
HasPrefix(s, prefix) ==
    Len(s) >= Len(prefix) /\ SubSeq(s, 1, Len(prefix)) = prefix

\* strings.HasSuffix
HasSuffix(s, suffix) ==
    Len(s) >= Len(suffix) /\ SubSeq(s, Len(s) - Len(suffix) + 1, Len(s)) = suffix

\* strings.TrimPrefix
TrimPrefix(s, prefix) ==
    IF HasPrefix(s, prefix) THEN SubSeq(s, Len(prefix) + 1, Len(s)) ELSE s

\* strings.TrimSuffix
TrimSuffix(s, suffix) ==
    IF HasSuffix(s, suffix) THEN SubSeq(s, 1, Len(s) - Len(suffix)) ELSE s

\* strings.Index: 0-based position of the first occurrence of sub in s, or -1.
Index(s, sub) ==
    LET hits == { i \in 0..(Len(s) - Len(sub)) : SubSeq(s, i + 1, i + Len(sub)) = sub }
    IN  IF hits = {} THEN -1 ELSE CHOOSE i \in hits : \A j \in hits : i <= j

\* strings.Contains
Contains(s, sub) == Index(s, sub) >= 0

\* strings.ReplaceAll for a one-character old and new, the only use the code makes of it.
ReplaceAll(s, old, new) == [i \in 1..Len(s) |-> IF s[i] = old THEN new ELSE s[i]]

\* The run-time panic of a slice expression whose low bound is behind the
\* end of the string.
PanicSliceBounds == "panic: runtime error: slice bounds out of range"

\* message[index:], index 0-based: a panic when index > len(message).
SliceFrom(s, index) ==
    IF index > Len(s) THEN PanicSliceBounds ELSE SubSeq(s, index + 1, Len(s))

RECURSIVE SplitLines(_, _)
\* strings.Split(s, "\n"); cur is the line being collected.
SplitLines(s, cur) ==
    IF s = <<>> THEN <<cur>>
    ELSE IF Head(s) = "\n" THEN <<cur>> \o SplitLines(Tail(s), <<>>)
    ELSE SplitLines(Tail(s), Append(cur, Head(s)))

-----------------------------------------------------------------------------
(* blocked_terms.go                                                        *)

\* isAlphanumeric: ASCII letters and digits only.
isAlphanumeric(b) ==
    b \in Range(LowerLetters) \cup Range(UpperLetters) \cup Range(Digits)

RECURSIVE isWholeWordFrom_NoBeforeCheck(_, _, _)
\* The loop looking only at the character after the occurrence.
isWholeWordFrom_NoBeforeCheck(message, term, index) ==
    LET pos == Index(SliceFrom(message, index), term)
    IN  IF pos = -1 THEN FALSE
        ELSE LET actualPos == index + pos
                 afterPos  == actualPos + Len(term)
                 afterOK   == IF afterPos >= Len(message) THEN TRUE
                              ELSE ~isAlphanumeric(message[afterPos + 1])
             IN  IF afterOK THEN TRUE
                 ELSE isWholeWordFrom_NoBeforeCheck(message, term, actualPos + 1)

RECURSIVE isWholeWordFrom(_, _, _)
\* The loop of isWholeWord, entered with the scan index `index` (0-based).
isWholeWordFrom(message, term, index) ==
    IF index > Len(message) THEN PanicSliceBounds
    ELSE
    LET pos == Index(SliceFrom(message, index), term)
    IN  IF pos = -1 THEN FALSE
        ELSE LET actualPos == index + pos
                 beforeOK  == IF actualPos = 0 THEN TRUE
                              ELSE ~isAlphanumeric(message[actualPos])
                 afterPos  == actualPos + Len(term)
                 afterOK   == IF afterPos >= Len(message) THEN TRUE
                              ELSE ~isAlphanumeric(message[afterPos + 1])
             IN  IF beforeOK /\ afterOK THEN TRUE
                 ELSE isWholeWordFrom(message, term, actualPos + 1)

isWholeWord(message, term) == isWholeWordFrom(message, term, 0)

RECURSIVE containsBlockedTermLoop_LastMatch(_, _, _)
\* The loop going on after a match, so that the last matching term is returned.
containsBlockedTermLoop_LastMatch(messageLower, normalizedMessage, terms) ==
    IF terms = <<>> THEN <<FALSE, <<>>>>
    ELSE LET termLower == ToLower(TrimSpace(Head(terms)))
             rest      == containsBlockedTermLoop_LastMatch(messageLower, normalizedMessage, Tail(terms))
         IN  IF rest[1] \/ termLower = <<>> THEN rest
             ELSE IF isWholeWord(messageLower, termLower) \/ isWholeWord(normalizedMessage, termLower)
                  THEN <<TRUE, termLower>>
                  ELSE rest

RECURSIVE containsBlockedTermLoop(_, _, _)
\* The range loop of containsBlockedTerm over the remaining terms.
containsBlockedTermLoop(messageLower, normalizedMessage, terms) ==
    IF terms = <<>> THEN <<FALSE, <<>>>>
    ELSE LET termLower == ToLower(TrimSpace(Head(terms)))
         IN  IF termLower = <<>>
             THEN containsBlockedTermLoop(messageLower, normalizedMessage, Tail(terms))
             ELSE IF /\ (Contains(messageLower, termLower) \/ Contains(normalizedMessage, termLower))
                     /\ (isWholeWord(messageLower, termLower) \/ isWholeWord(normalizedMessage, termLower))
                  THEN <<TRUE, termLower>>
                  ELSE containsBlockedTermLoop(messageLower, normalizedMessage, Tail(terms))

\* containsBlockedTerm without the copy that has '_' and '-' replaced.
containsBlockedTerm_NoNormalization(messageText, blockedTerms) ==
    IF Len(blockedTerms) = 0 THEN <<FALSE, <<>>>>
    ELSE containsBlockedTermLoop(ToLower(messageText), ToLower(messageText), blockedTerms)

\* containsBlockedTerm(messageText, blockedTerms) -> (bool, string)
containsBlockedTerm(messageText, blockedTerms) ==
    IF Len(blockedTerms) = 0 THEN <<FALSE, <<>>>>
    ELSE LET messageLower      == ToLower(messageText)
             normalizedMessage == ReplaceAll(ReplaceAll(messageLower, "_", " "), "-", " ")
         IN  containsBlockedTermLoop(messageLower, normalizedMessage, blockedTerms)

-----------------------------------------------------------------------------
(* encoding/json, as far as json.Unmarshal into the moderationResult      *)
(* struct {IsMalicious bool; ErrorCode string; Reason string} needs it.   *)
(* Positions are 1-based indexes into the text.  \uXXXX escapes are       *)
(* outside the modelled alphabet.                                          *)

JSONSpace(c) == c \in {" ", "\t", "\n", "\r"}

RECURSIVE SkipSpace(_, _)
SkipSpace(s, i) ==
    IF i <= Len(s) /\ JSONSpace(s[i]) THEN SkipSpace(s, i + 1) ELSE i

\* A value that failed to scan (SyntaxError).
SyntaxError == [ok |-> FALSE, next |-> 0, kind |-> "invalid", str |-> <<>>, b |-> FALSE, members |-> <<>>]

Scanned(next, kind, str, b, members) ==
    [ok |-> TRUE, next |-> next, kind |-> kind, str |-> str, b |-> b, members |-> members]

\* The ASCII characters by code: ASCII[n + 1] is the character of code n.
ASCII ==
    << "<NUL>", "<SOH>", "<STX>", "<ETX>", "<EOT>", "<ENQ>", "<ACK>", "<BEL>", "<BS>", "\t", "\n", "<VT>", "\f", "\r", "<SO>", "<SI>",
       "<DLE>", "<DC1>", "<DC2>", "<DC3>", "<DC4>", "<NAK>", "<SYN>", "<ETB>", "<CAN>", "<EM>", "<SUB>", "<ESC>", "<FS>", "<GS>", "<RS>", "<US>",
       " ", "!", "\"", "#", "$", "%", "&", "'", "(", ")", "*", "+", ",", "-", ".", "/",
       "0", "1", "2", "3", "4", "5", "6", "7", "8", "9", ":", ";", "<", "=", ">", "?",
       "@", "A", "B", "C", "D", "E", "F", "G", "H", "I", "J", "K", "L", "M", "N", "O",
       "P", "Q", "R", "S", "T", "U", "V", "W", "X", "Y", "Z", "[", "\\", "]", "^", "_",
       "<backquote>", "a", "b", "c", "d", "e", "f", "g", "h", "i", "j", "k", "l", "m", "n", "o",
       "p", "q", "r", "s", "t", "u", "v", "w", "x", "y", "z", "{", "|", "}", "~", "<DEL>" >>

\* The value of a hexadecimal digit, -1 for another character.
HexValue(c) ==
    LET lower == <<"0","1","2","3","4","5","6","7","8","9","a","b","c","d","e","f">>
        upper == <<"0","1","2","3","4","5","6","7","8","9","A","B","C","D","E","F">>
    IN  IF \E k \in 1..16 : lower[k] = c THEN (CHOOSE k \in 1..16 : lower[k] = c) - 1
        ELSE IF \E k \in 1..16 : upper[k] = c THEN (CHOOSE k \in 1..16 : upper[k] = c) - 1
        ELSE -1

\* getu4: the code of the \uXXXX escape that starts at s[i], -1 when there
\* is none.
Getu4(s, i) ==
    IF i + 5 > Len(s) \/ s[i] # "\\" \/ s[i + 1] # "u" THEN -1
    ELSE IF \E k \in 2..5 : HexValue(s[i + k]) = -1 THEN -1
    ELSE HexValue(s[i + 2]) * 4096 + HexValue(s[i + 3]) * 256
         + HexValue(s[i + 4]) * 16 + HexValue(s[i + 5])

\* The character of code n: an ASCII character, or the token <U+XXXX>.
Chr(n) ==
    LET hex == <<"0","1","2","3","4","5","6","7","8","9","A","B","C","D","E","F">>
        d(k) == hex[((n \div (16 ^ k)) % 16) + 1]
        low  == d(3) \o d(2) \o d(1) \o d(0)
    IN  IF n < 128 THEN ASCII[n + 1]
        ELSE IF n < 65536 THEN "<U+" \o low \o ">"
        ELSE IF n < 1048576 THEN "<U+" \o d(4) \o low \o ">"
        ELSE "<U+" \o d(5) \o d(4) \o low \o ">"

\* The character a backslash escape stands for (\u escapes are Getu4's).
Unescape(c) ==
    CASE c = "n" -> "\n"
      [] c = "t" -> "\t"
      [] c = "r" -> "\r"
      [] c = "f" -> "\f"
      [] c = "b" -> "<BS>"
      [] OTHER   -> c

RECURSIVE ScanString(_, _, _)
\* Scans a string literal whose opening quote is at i - 1.  A \u escape of
\* a surrogate is taken with the escape behind it when the two make a
\* pair, and else for U+FFFD; a character below U+0020 ends the scan.
ScanString(s, i, acc) ==
    IF i > Len(s) THEN SyntaxError
    ELSE IF s[i] = "\"" THEN Scanned(i + 1, "string", acc, FALSE, <<>>)
    ELSE IF s[i] = "\\"
         THEN IF i + 1 <= Len(s) /\ s[i + 1] \in {"\"", "\\", "/", "b", "f", "n", "r", "t"}
              THEN ScanString(s, i + 2, Append(acc, Unescape(s[i + 1])))
              ELSE IF i + 1 <= Len(s) /\ s[i + 1] = "u"
              THEN LET rr  == Getu4(s, i)
                       rr1 == Getu4(s, i + 6)
                   IN  IF rr = -1 THEN SyntaxError
                       ELSE IF rr < 55296 \/ rr >= 57344
                       THEN ScanString(s, i + 6, Append(acc, Chr(rr)))
                       ELSE IF rr < 56320 /\ rr1 >= 56320 /\ rr1 < 57344
                       THEN ScanString(s, i + 12,
                                       Append(acc, Chr(65536 + (rr - 55296) * 1024 + (rr1 - 56320))))
                       ELSE ScanString(s, i + 6, Append(acc, Chr(65533)))
              ELSE SyntaxError
    ELSE IF \E n \in 1..32 : ASCII[n] = s[i] THEN SyntaxError
    ELSE ScanString(s, i + 1, Append(acc, s[i]))

IsDigit(s, i) == i <= Len(s) /\ s[i] \in Range(Digits)

RECURSIVE ScanDigits(_, _)
ScanDigits(s, i) == IF IsDigit(s, i) THEN ScanDigits(s, i + 1) ELSE i

\* Scans a number literal starting at i: -? (0 | [1-9][0-9]*) (. [0-9]+)? ([eE] [+-]? [0-9]+)?
ScanNumber(s, i) ==
    LET j0 == IF s[i] = "-" THEN i + 1 ELSE i
        j1 == IF s[j0] = "0" THEN j0 + 1 ELSE ScanDigits(s, j0)
        hasFrac == j1 <= Len(s) /\ s[j1] = "."
        j2 == IF hasFrac THEN ScanDigits(s, j1 + 1) ELSE j1
        hasExp == j2 <= Len(s) /\ s[j2] \in {"e", "E"}
        k  == IF j2 + 1 <= Len(s) /\ s[j2 + 1] \in {"+", "-"} THEN j2 + 2 ELSE j2 + 1
        j3 == IF hasExp THEN ScanDigits(s, k) ELSE j2
    IN  IF ~IsDigit(s, j0) THEN SyntaxError
        ELSE IF hasFrac /\ ~IsDigit(s, j1 + 1) THEN SyntaxError
        ELSE IF hasExp /\ ~IsDigit(s, k) THEN SyntaxError
        ELSE Scanned(j3, "number", <<>>, FALSE, <<>>)

Match(s, i, word) ==
    i + Len(word) - 1 <= Len(s) /\ SubSeq(s, i, i + Len(word) - 1) = word

RECURSIVE ScanValue(_, _)
RECURSIVE ScanMembers(_, _, _)
RECURSIVE ScanElements(_, _)

\* Scans the members of an object; i is just after '{' or ','.
ScanMembers(s, i, acc) ==
    LET k  == SkipSpace(s, i)
        key == ScanString(s, k + 1, <<>>)
        c  == SkipSpace(s, key.next)
        v  == ScanValue(s, SkipSpace(s, c + 1))
        e  == SkipSpace(s, v.next)
        member == [key |-> key.str, kind |-> v.kind, str |-> v.str, b |-> v.b]
    IN  IF k > Len(s) \/ s[k] # "\"" THEN SyntaxError
        ELSE IF ~key.ok THEN SyntaxError
        ELSE IF c > Len(s) \/ s[c] # ":" THEN SyntaxError
        ELSE IF ~v.ok THEN SyntaxError
        ELSE IF e > Len(s) THEN SyntaxError
        ELSE IF s[e] = "," THEN ScanMembers(s, e + 1, Append(acc, member))
        ELSE IF s[e] = "}" THEN Scanned(e + 1, "object", <<>>, FALSE, Append(acc, member))
        ELSE SyntaxError

\* Scans the elements of an array; i is just after '[' or ','.
ScanElements(s, i) ==
    LET v == ScanValue(s, SkipSpace(s, i))
        e == SkipSpace(s, v.next)
    IN  IF ~v.ok THEN SyntaxError
        ELSE IF e > Len(s) THEN SyntaxError
        ELSE IF s[e] = "," THEN ScanElements(s, e + 1)
        ELSE IF s[e] = "]" THEN Scanned(e + 1, "array", <<>>, FALSE, <<>>)
        ELSE SyntaxError

\* Scans one JSON value starting at i (leading space already skipped).
ScanValue(s, i) ==
    IF i > Len(s) THEN SyntaxError
    ELSE IF s[i] = "\"" THEN ScanString(s, i + 1, <<>>)
    ELSE IF s[i] = "{"
         THEN LET j == SkipSpace(s, i + 1)
              IN  IF j <= Len(s) /\ s[j] = "}"
                  THEN Scanned(j + 1, "object", <<>>, FALSE, <<>>)
                  ELSE ScanMembers(s, i + 1, <<>>)
    ELSE IF s[i] = "["
         THEN LET j == SkipSpace(s, i + 1)
              IN  IF j <= Len(s) /\ s[j] = "]"
                  THEN Scanned(j + 1, "array", <<>>, FALSE, <<>>)
                  ELSE ScanElements(s, i + 1)
    ELSE IF Match(s, i, <<"t","r","u","e">>) THEN Scanned(i + 4, "bool", <<>>, TRUE, <<>>)
    ELSE IF Match(s, i, <<"f","a","l","s","e">>) THEN Scanned(i + 5, "bool", <<>>, FALSE, <<>>)
    ELSE IF Match(s, i, <<"n","u","l","l">>) THEN Scanned(i + 4, "null", <<>>, FALSE, <<>>)
    ELSE IF s[i] = "-" \/ IsDigit(s, i) THEN ScanNumber(s, i)
    ELSE SyntaxError

\* The json tags of the moderationResult struct.
TagIsMalicious == <<"i","s","_","m","a","l","i","c","i","o","u","s">>
TagErrorCode   == <<"e","r","r","o","r","_","c","o","d","e">>
TagReason      == <<"r","e","a","s","o","n">>

\* var moderationResult struct{...}: the zero value, with the error Unmarshal returns.
ZeroModerationResult ==
    [err |-> FALSE, IsMalicious |-> FALSE, ErrorCode |-> <<>>, Reason |-> <<>>]

\* encoding/json's folding of an object key for the match with the field
\* tags: ASCII letters fold by case, and so do the two characters outside
\* ASCII whose simple case folding is an ASCII letter, U+017F (long s) and
\* U+212A (Kelvin sign).
foldName(key) ==
    [i \in 1..Len(key) |->
        IF key[i] = "<U+017F>" THEN "s"
        ELSE IF key[i] = "<U+212A>" THEN "k"
        ELSE ToLowerChar(key[i])]

RECURSIVE DecodeMembers(_, _)
\* Stores the members of the decoded object into the struct, in order: keys
\* match the tags exactly or under folding, null leaves a field alone, a value of
\* the wrong type is an UnmarshalTypeError (decoding goes on, the error is
\* returned), unknown keys are skipped.
DecodeMembers(members, acc) ==
    IF members = <<>> THEN acc
    ELSE LET m    == Head(members)
             name == foldName(m.key)
             next ==
                IF m.kind = "null" \/ name \notin {TagIsMalicious, TagErrorCode, TagReason}
                THEN acc
                ELSE IF name = TagIsMalicious
                     THEN IF m.kind = "bool" THEN [acc EXCEPT !.IsMalicious = m.b]
                                             ELSE [acc EXCEPT !.err = TRUE]
                ELSE IF name = TagErrorCode
                     THEN IF m.kind = "string" THEN [acc EXCEPT !.ErrorCode = m.str]
                                               ELSE [acc EXCEPT !.err = TRUE]
                ELSE IF m.kind = "string" THEN [acc EXCEPT !.Reason = m.str]
                                          ELSE [acc EXCEPT !.err = TRUE]
         IN  DecodeMembers(Tail(members), next)

\* json.Unmarshal([]byte(responseText), &moderationResult)
Unmarshal(responseText) ==
    LET i == SkipSpace(responseText, 1)
        v == ScanValue(responseText, i)
    IN  IF ~v.ok \/ SkipSpace(responseText, v.next) <= Len(responseText)
        THEN [ZeroModerationResult EXCEPT !.err = TRUE]
        ELSE IF v.kind = "null" THEN ZeroModerationResult
        ELSE IF v.kind # "object" THEN [ZeroModerationResult EXCEPT !.err = TRUE]
        ELSE DecodeMembers(v.members, ZeroModerationResult)

-----------------------------------------------------------------------------
(* message_filter.go: Config, Client, NewClient                            *)

\* The embedded blocked_terms.txt (//go:embed): comment lines, blank lines, terms.
defaultBlockedTermsFile == <<"#"," ","o","f","f","e","n","s","i","v","e"," ","t","e","r","m","s","\n","s","p","a","m","\n","\n"," "," ","b","a","d"," ","w","o","r","d"," ","\n","#","a","s","s","\n","i","d","i","o","t","\n">>

RECURSIVE FilterTermLines(_)
\* The loop of defaultBlockedTerms over the lines of the file.
FilterTermLines(lines) ==
    IF lines = <<>> THEN <<>>
    ELSE LET trimmed == TrimSpace(Head(lines))
         IN  IF trimmed # <<>> /\ ~HasPrefix(trimmed, <<"#">>)
             THEN <<trimmed>> \o FilterTermLines(Tail(lines))
             ELSE FilterTermLines(Tail(lines))

\* defaultBlockedTerms()
defaultBlockedTerms ==
    IF defaultBlockedTermsFile = <<>> THEN <<>>
    ELSE FilterTermLines(SplitLines(defaultBlockedTermsFile, <<>>))

DefaultModel   == "llama-3.1-8b-instant"
DefaultBaseURL == "https://api.groq.com/openai/v1"

\* A nil *openai.Client, and the one openai.NewClientWithConfig returns.
NilOpenAI == [isNil |-> TRUE, apiKey |-> "", baseURL |-> ""]

OpenAIClient(apiKey, baseURL) == [isNil |-> FALSE, apiKey |-> apiKey, baseURL |-> baseURL]

\* A nil *Client.
NilClient ==
    [ptr |-> NIL, client |-> NilOpenAI, model |-> "", promptBuilder |-> NIL, blockedTerms |-> <<>>]

\* &Client{}: a client that did not come out of NewClient (c.client == nil).
ZeroClient ==
    [ptr |-> "set", client |-> NilOpenAI, model |-> "", promptBuilder |-> NIL, blockedTerms |-> <<>>]

\* NewClient without its `if apiKey == ""` return.
NewClient_NoKeyCheck(cfg, env) ==
    [ptr |-> "set",
     client |-> OpenAIClient(IF cfg.APIKey = "" THEN env.GROQ_API_KEY ELSE cfg.APIKey, DefaultBaseURL),
     model |-> DefaultModel,
     promptBuilder |-> "defaultPromptTemplate",
     blockedTerms |-> IF cfg.BlockedTerms.isNil THEN defaultBlockedTerms ELSE cfg.BlockedTerms.elems]

\* NewClient taking the empty slice for an unset one (len(cfg.BlockedTerms) == 0).
NewClient_DefaultOnEmpty(cfg, env) ==
    LET apiKey  == IF cfg.APIKey = "" THEN env.GROQ_API_KEY ELSE cfg.APIKey
        model   == IF cfg.Model # "" THEN cfg.Model
                   ELSE IF env.GROQ_MODEL # "" THEN env.GROQ_MODEL
                   ELSE DefaultModel
        baseURL == IF cfg.BaseURL = "" THEN DefaultBaseURL ELSE cfg.BaseURL
        promptBuilder == IF cfg.PromptTemplate = NIL THEN "defaultPromptTemplate"
                         ELSE cfg.PromptTemplate
        blockedTerms  == IF Len(cfg.BlockedTerms.elems) = 0 THEN defaultBlockedTerms
                         ELSE cfg.BlockedTerms.elems
    IN  IF apiKey = "" THEN NilClient
        ELSE [ptr |-> "set",
              client |-> OpenAIClient(apiKey, baseURL),
              model |-> model,
              promptBuilder |-> promptBuilder,
              blockedTerms |-> blockedTerms]

\* NewClient(cfg) in a process whose environment is env.  A slice-valued
\* field is [isNil, elems] so that nil and the empty slice differ.
NewClient(cfg, env) ==
    LET apiKey  == IF cfg.APIKey = "" THEN env.GROQ_API_KEY ELSE cfg.APIKey
        model   == IF cfg.Model # "" THEN cfg.Model
                   ELSE IF env.GROQ_MODEL # "" THEN env.GROQ_MODEL
                   ELSE DefaultModel
        baseURL == IF cfg.BaseURL = "" THEN DefaultBaseURL ELSE cfg.BaseURL
        promptBuilder == IF cfg.PromptTemplate = NIL THEN "defaultPromptTemplate"
                         ELSE cfg.PromptTemplate
        blockedTerms  == IF cfg.BlockedTerms.isNil THEN defaultBlockedTerms
                         ELSE cfg.BlockedTerms.elems
    IN  IF apiKey = "" THEN NilClient
        ELSE [ptr |-> "set",
              client |-> OpenAIClient(apiKey, baseURL),
              model |-> model,
              promptBuilder |-> promptBuilder,
              blockedTerms |-> blockedTerms]

\* c.GetModel()
GetModel(c) == IF c.ptr = NIL THEN DefaultModel ELSE c.model

\* c.promptBuilder(messageText): the template applied to the message.
BuildPrompt(c, messageText) == [template |-> c.promptBuilder, messageText |-> messageText]

-----------------------------------------------------------------------------
(* The moderation codes and the results of CheckMessageContent             *)

ContentSpam          == <<"C","O","N","T","E","N","T","_","S","P","A","M">>
ContentInappropriate == <<"C","O","N","T","E","N","T","_","I","N","A","P","P","R","O","P","R","I","A","T","E">>
ContentHarassment    == <<"C","O","N","T","E","N","T","_","H","A","R","A","S","S","M","E","N","T">>
ContentScam          == <<"C","O","N","T","E","N","T","_","S","C","A","M">>
ContentViolence      == <<"C","O","N","T","E","N","T","_","V","I","O","L","E","N","C","E">>
ContentOther         == <<"C","O","N","T","E","N","T","_","O","T","H","E","R">>

DefinedCodes == {ContentSpam, ContentInappropriate, ContentHarassment,
                 ContentScam, ContentViolence, ContentOther}

\* (isMalicious, errorCode, reason, err)
Return(isMalicious, errorCode, reason, err) ==
    [isMalicious |-> isMalicious, errorCode |-> errorCode, reason |-> reason, err |-> err]

\* return false, "", "", err
FailOpen(err) == Return(FALSE, <<>>, <<>>, err)

-----------------------------------------------------------------------------
(* jwt.go lines 130-210: Client.CheckMessageContent                        *)

\* c == nil || c.client == nil
NotInitialized(c) == c.ptr = NIL \/ c.client.isNil

\* The backquote character (U+0060), written out by name: the TLA+ lexer
\* does not take it inside a string.
BQ == "<backquote>"

Fence     == <<BQ, BQ, BQ>>
FenceJSON == <<BQ, BQ, BQ, "j","s","o","n">>

\* The cleaning that knows only the fence tagged json.
CleanResponseText_TaggedFenceOnly(content) ==
    LET trimmed  == TrimSpace(content)
        stripped == IF HasPrefix(trimmed, FenceJSON)
                    THEN TrimSuffix(TrimPrefix(trimmed, FenceJSON), Fence)
                    ELSE trimmed
    IN  TrimSpace(stripped)

\* Clean the response text (remove markdown code blocks if present).
CleanResponseText(content) ==
    LET trimmed  == TrimSpace(content)
        stripped == IF HasPrefix(trimmed, FenceJSON)
                    THEN TrimSuffix(TrimPrefix(trimmed, FenceJSON), Fence)
                    ELSE IF HasPrefix(trimmed, Fence)
                    THEN TrimSuffix(TrimPrefix(trimmed, Fence), Fence)
                    ELSE trimmed
    IN  TrimSpace(stripped)

\* The fallback comparing without strings.ToLower.
ParseFailureVerdict_CaseSensitive(responseText) ==
    IF /\ Contains(responseText, TagIsMalicious)
       /\ Contains(responseText, <<"t","r","u","e">>)
    THEN Return(TRUE, ContentOther, <<>>, NIL)
    ELSE FailOpen(NIL)

\* The branch taken when json.Unmarshal fails: a simple check for malicious indicators.
ParseFailureVerdict(responseText) ==
    IF /\ Contains(ToLower(responseText), TagIsMalicious)
       /\ Contains(ToLower(responseText), <<"t","r","u","e">>)
    THEN Return(TRUE, ContentOther, <<>>, NIL)
    ELSE FailOpen(NIL)

\* The malicious return without the CONTENT_OTHER default.
DecodedVerdict_NoDefault(moderationResult) ==
    IF moderationResult.IsMalicious
    THEN Return(TRUE, moderationResult.ErrorCode, moderationResult.Reason, NIL)
    ELSE FailOpen(NIL)

\* The non-malicious return handing the decoded code and reason through.
DecodedVerdict_PassThrough(moderationResult) ==
    IF moderationResult.IsMalicious
    THEN LET errorCode == IF moderationResult.ErrorCode = <<>> THEN ContentOther
                          ELSE moderationResult.ErrorCode
         IN  Return(TRUE, errorCode, moderationResult.Reason, NIL)
    ELSE Return(FALSE, moderationResult.ErrorCode, moderationResult.Reason, NIL)

\* The returns that follow a successful json.Unmarshal.
DecodedVerdict(moderationResult) ==
    IF moderationResult.IsMalicious
    THEN LET errorCode == IF moderationResult.ErrorCode = <<>> THEN ContentOther
                          ELSE moderationResult.ErrorCode
         IN  Return(TRUE, errorCode, moderationResult.Reason, NIL)
    ELSE FailOpen(NIL)

\* From resp.Choices[0].Message.Content to the return.
ParseResponse(content) ==
    LET responseText     == CleanResponseText(content)
        moderationResult == Unmarshal(responseText)
    IN  IF moderationResult.err THEN ParseFailureVerdict(responseText)
        ELSE DecodedVerdict(moderationResult)

\* The API failure logged and swallowed.
AfterCreateChatCompletion_SwallowsError(r) ==
    IF r.err # NIL THEN FailOpen(NIL)
    ELSE IF Len(r.choices) = 0 THEN FailOpen("no response from Groq API")
    ELSE ParseResponse(r.choices[1])

\* CheckMessageContent from the return of CreateChatCompletion on:
\* r is what the call returned, (resp, err).
AfterCreateChatCompletion(r) ==
    IF r.err # NIL THEN FailOpen("error calling Groq API: " \o r.err)
    ELSE IF Len(r.choices) = 0 THEN FailOpen("no response from Groq API")
    ELSE ParseResponse(r.choices[1])

-----------------------------------------------------------------------------
(* validators: AcceptableMessageValidator                                  *)

\* The validator without its `if err != nil` branch.
AcceptableResult_IgnoresError(res) == ~res.isMalicious

\* The answer of the validator from what FilterMessageWithAI returned.
AcceptableResult(res) ==
    IF res.err # NIL THEN FALSE ELSE ~res.isMalicious


-----------------------------------------------------------------------------
(* The inputs: configurations, messages and the answers of the remote     *)
(* classifier (a stub that serialises a verdict, optionally fenced, or    *)
(* answers free text, or fails).                                           *)

\* Completed invocations after which the model stops taking new ones.
MaxCalls == 2

NilSlice    == [isNil |-> TRUE,  elems |-> <<>>]
Slice(elems) == [isNil |-> FALSE, elems |-> elems]

TermSpam == <<"s","p","a","m">>

Configs ==
    { [APIKey |-> k, Model |-> "", BaseURL |-> "", PromptTemplate |-> NIL, BlockedTerms |-> b] :
        k \in {"", "gsk_cfg"},
        b \in {NilSlice, Slice(<<>>), Slice(<<TermSpam>>)} }

Envs == { [GROQ_API_KEY |-> k, GROQ_MODEL |-> ""] : k \in {"", "gsk_env"} }

MsgEmpty == <<>>
MsgHello == <<"h","e","l","l","o">>
MsgSpam  == <<"T","h","i","s"," ","i","s"," ","S","P","A","M","!","!">>
MsgClass == <<"c","l","a","s","s">>

Messages == {MsgEmpty, MsgHello, MsgSpam, MsgClass}

\* An optional JSON member: left out, null, or a string.
Absent     == [present |-> FALSE, null |-> FALSE, str |-> <<>>]
Null       == [present |-> TRUE,  null |-> TRUE,  str |-> <<>>]
Str(s)     == [present |-> TRUE,  null |-> FALSE, str |-> s]

Quote(s) == <<"\"">> \o s \o <<"\"">>

RECURSIVE Join(_)
Join(parts) ==
    IF parts = <<>> THEN <<>>
    ELSE IF Len(parts) = 1 THEN Head(parts)
    ELSE Head(parts) \o <<",", " ">> \o Join(Tail(parts))

\* The verdict object the prompt asks for, as a stub classifier writes it.
\* mal: "true", "false", "absent", or "quoted" (the boolean sent as the string "true").
VerdictJSON(mal, code, reason) ==
    LET colon == <<":", " ">>
        m1 == IF mal = "absent" THEN <<>>
              ELSE << Quote(TagIsMalicious) \o colon \o
                      (CASE mal = "true"  -> <<"t","r","u","e">>
                         [] mal = "false" -> <<"f","a","l","s","e">>
                         [] OTHER         -> Quote(<<"t","r","u","e">>)) >>
        m2 == IF ~code.present THEN <<>>
              ELSE << Quote(TagErrorCode) \o colon \o
                      (IF code.null THEN <<"n","u","l","l">> ELSE Quote(code.str)) >>
        m3 == IF ~reason.present THEN <<>>
              ELSE << Quote(TagReason) \o colon \o
                      (IF reason.null THEN <<"n","u","l","l">> ELSE Quote(reason.str)) >>
    IN  <<"{">> \o Join(m1 \o m2 \o m3) \o <<"}">>

\* How the stub wraps the object.
Wrap(w, json) ==
    CASE w = "none"      -> json
      [] w = "json"      -> FenceJSON \o <<"\n">> \o json \o <<"\n">> \o Fence
      [] w = "bare"      -> Fence \o <<"\n">> \o json \o <<"\n">> \o Fence
      [] w = "padded"    -> <<"\n", " ">> \o FenceJSON \o <<" ">> \o json \o <<"\t">> \o Fence \o <<" ", "\n">>
      [] w = "barepadded" -> <<"\t">> \o Fence \o <<"\r", "\n">> \o json \o <<"\n", "\n">> \o Fence \o <<"\n">>
      [] w = "prose"     -> <<"R","e","s","u","l","t",":"," ">> \o json
      [] w = "truncated" -> SubSeq(json, 1, Len(json) - 1)

FencedWraps    == {"json", "bare", "padded", "barepadded"}
DecodableWraps == {"none"} \cup FencedWraps
Wraps          == DecodableWraps \cup {"prose", "truncated"}

CodeFoo     == <<"F","O","O">>
ReasonPhish == <<"p","h","i","s","h","i","n","g"," ","l","i","n","k">>
ReasonTrue  == <<"n","o","t"," ","t","r","u","e">>

MalOpts    == {"true", "false", "absent", "quoted"}
CodeOpts   == {Absent, Null, Str(<<>>), Str(ContentScam), Str(CodeFoo), Str(<<" ">>)}
ReasonOpts == {Absent, Str(<<>>), Str(ReasonPhish), Str(ReasonTrue)}

\* What CreateChatCompletion returns: (resp, err).  gen records how the
\* stub made the answer; the code never reads it.
ApiError(cause) ==
    [err |-> cause, choices |-> <<>>, gen |-> [shape |-> "error"]]

NoChoices ==
    [err |-> NIL, choices |-> <<>>, gen |-> [shape |-> "empty"]]

VerdictAnswer(mal, code, reason, w) ==
    [err |-> NIL,
     choices |-> << Wrap(w, VerdictJSON(mal, code, reason)) >>,
     gen |-> [shape |-> "verdict", mal |-> mal, code |-> code, reason |-> reason, wrap |-> w]]

\* A free-text answer; decodable, hasIsMal and hasTrue say what the text is:
\* whether it is JSON the struct accepts, and whether it has the two words.
TextAnswer(text, decodable, hasIsMal, hasTrue) ==
    [err |-> NIL,
     choices |-> << text >>,
     gen |-> [shape |-> "text", decodable |-> decodable, hasIsMal |-> hasIsMal, hasTrue |-> hasTrue]]

ApiErrors == {"connection refused", "status code: 500", "context deadline exceeded", "context canceled"}

TextAnswers ==
    { TextAnswer(<<"{","\"","i","\\","u","0","1","7","f","_","m","a","l","i","c","i","o","u","s","\"",":"," ","t","r","u","e","}">>, TRUE, FALSE, TRUE),
      TextAnswer(<<"{","\"","i","s","_","m","a","l","i","c","i","o","u","s","\"",":"," ","t","r","u","e",","," ","\"","r","e","a","\\","u","0","1","7","f","o","n","\"",":"," ","\"","x","\"","}">>, TRUE, TRUE, TRUE),
      TextAnswer(<<"{","\"","i","s","_","m","a","l","i","c","i","o","u","s","\"",":"," ","f","a","l","s","e",","," ","\"","r","e","a","s","o","n","\"",":"," ","\"","n","o","t"," ","t","r","u","e"," ","\\","u","0","0","4","1","\\","u","d","8","3","d","\\","u","d","e","0","0","\"","}">>, TRUE, TRUE, TRUE),
      TextAnswer(<<"{","\"","i","s","_","m","a","l","i","c","i","o","u","s","\"",":"," ","f","a","l","s","e",","," ","\"","r","e","a","s","o","n","\"",":"," ","\"","a","<BS>","b","\"","}">>, FALSE, TRUE, FALSE),
      TextAnswer(<<"I"," ","c","a","n","n","o","t"," ","h","e","l","p"," ","w","i","t","h"," ","t","h","a","t",".">>, FALSE, FALSE, FALSE),
      TextAnswer(<<>>, FALSE, FALSE, FALSE),
      TextAnswer(<<"T","h","e"," ","m","e","s","s","a","g","e"," ","I","S","_","M","A","L","I","C","I","O","U","S",":"," ","T","R","U","E">>, FALSE, TRUE, TRUE),
      TextAnswer(<<"i","s","_","m","a","l","i","c","i","o","u","s"," ","="," ","y","e","s">>, FALSE, TRUE, FALSE),
      TextAnswer(<<"t","r","u","e">>, FALSE, FALSE, TRUE),
      TextAnswer(<<"n","u","l","l">>, TRUE, FALSE, FALSE),
      TextAnswer(<<"{","\"","I","s","_","M","a","l","i","c","i","o","u","s","\"",":"," ","t","r","u","e",","," ","\"","e","x","t","r","a","\"",":"," ","[","1",","," ","-","2",".","5","e","3",","," ","{","\"","a","\"",":"," ","\"","\\","\"","b","\"","}","]",","," ","\"","R","E","A","S","O","N","\"",":"," ","\"","x","\"","}"," ">>, TRUE, TRUE, TRUE),
      TextAnswer(<<"{","\"","i","s","_","m","a","l","i","c","i","o","u","s","\"",":"," ","t","r","u","e",","," ","\"","e","r","r","o","r","_","c","o","d","e","\"",":"," ","7","}">>, FALSE, TRUE, TRUE),
      TextAnswer(<<"{","\"","i","s","_","m","a","l","i","c","i","o","u","s","\"",":"," ","f","a","l","s","e",",","}">>, FALSE, TRUE, FALSE) }

Answers ==
    { ApiError(e) : e \in ApiErrors } \cup {NoChoices} \cup TextAnswers \cup
    { VerdictAnswer(mal, code, reason, w) :
        mal \in MalOpts, code \in CodeOpts, reason \in ReasonOpts, w \in Wraps }

-----------------------------------------------------------------------------
(* The state machine                                                       *)

VARIABLES
    client,       \* the *Client the callers hold
    credential,   \* "missing" / "found": whether NewClient had an API key (config or
                  \* environment); "unused" when the client is not NewClient's
    pc,           \* "start", "idle", "awaiting" (CreateChatCompletion in flight), "done"
    caller,       \* the entry point of the current invocation
    messageText,  \* its message
    checked,      \* whether CheckMessageContent ran in this invocation
    requests,     \* the chat-completion requests this invocation has sent
    resp,         \* what CreateChatCompletion returned to it
    result,       \* what CheckMessageContent returned
    returns,      \* how many times CheckMessageContent returned in this invocation
    valid,        \* what the validator function returned
    calls,        \* completed invocations
    config,       \* the Config NewClient was given
    match,        \* a run of containsBlockedTerm: its arguments and its results
    stub,         \* a deterministic classifier: the answer it gives to each message
    history,      \* the (message, result) pairs earlier invocations returned
    proc,         \* the concurrent calls on the client, one record per caller
    sink,         \* the invocations the MaliciousMessageSaver has received
    saved,        \* the last call of SaveMaliciousMessage and what it returned
    scan,         \* one run of the loop of isWholeWord: its arguments and locals
    http          \* one request going through a JWT middleware: the gin.Context

core == <<client, credential, pc, caller, messageText, checked, requests, resp,
          result, returns, valid, calls, config>>

\* What the invocations of CheckMessageContent on one goroutine leave alone.
aux == <<match, stub, history, proc, sink, saved, scan, http>>

vars == <<client, credential, pc, caller, messageText, checked, requests, resp,
          result, returns, valid, calls, config, match, stub, history, proc, sink, saved,
          scan, http>>

NoAnswer == [err |-> NIL, choices |-> <<>>, gen |-> [shape |-> "none"]]

NoConfig == [APIKey |-> "", Model |-> "", BaseURL |-> "", PromptTemplate |-> NIL, BlockedTerms |-> NilSlice]

NoMatch == [pc |-> "off", messageText |-> <<>>, blockedTerms |-> <<>>, found |-> FALSE, term |-> <<>>]

\* The nil MaliciousMessageSaver.
NilSaver == [isNil |-> TRUE, name |-> "nil", returns |-> NIL]

\* No call of SaveMaliciousMessage yet: n counts the calls, saver and args
\* are those of the last call and err is what it returned.
NoSave == [n |-> 0, saver |-> NilSaver, args |-> <<>>, err |-> NIL]

\* No run of isWholeWord.
NoScan == [pc |-> "off", message |-> <<>>, term |-> <<>>, index |-> 0, result |-> FALSE]

\* No request.
NoRequest == [pc |-> "off"]

\* Before NewClient: no client, no invocation.
InitCore ==
    /\ client = NilClient
    /\ credential = "unused"
    /\ pc = "start"
    /\ caller = "none"
    /\ messageText = <<>>
    /\ checked = FALSE
    /\ requests = <<>>
    /\ resp = NoAnswer
    /\ result = FailOpen(NIL)
    /\ returns = 0
    /\ valid = FALSE
    /\ calls = 0
    /\ config = NoConfig

Init ==
    /\ InitCore
    /\ match = NoMatch
    /\ stub = <<>>
    /\ history = <<>>
    /\ proc = <<>>
    /\ sink = <<>>
    /\ saved = NoSave
    /\ scan = NoScan
    /\ http = NoRequest

\* groq.NewClient(cfg)
NewClientCall(cfg, env) ==
    /\ pc = "start"
    /\ client' = NewClient(cfg, env)
    /\ credential' = IF cfg.APIKey = "" /\ env.GROQ_API_KEY = "" THEN "missing" ELSE "found"
    /\ pc' = "idle"
    /\ config' = cfg
    /\ UNCHANGED <<caller, messageText, checked, requests, resp, result, returns, valid, calls>>
    /\ UNCHANGED aux

\* &groq.Client{} / new(groq.Client) in a caller
ZeroValueClient ==
    /\ pc = "start"
    /\ client' = ZeroClient
    /\ credential' = "unused"
    /\ pc' = "idle"
    /\ UNCHANGED <<caller, messageText, checked, requests, resp, result, returns, valid, calls, config>>
    /\ UNCHANGED aux

\* CheckMessageContent up to its first return or to the remote call.
EnterCheckMessageContent(who, msg) ==
    /\ caller' = who
    /\ messageText' = msg
    /\ checked' = TRUE
    /\ resp' = NoAnswer
    /\ IF NotInitialized(client)
       THEN /\ result' = FailOpen(NIL)
            /\ returns' = 1
            /\ requests' = <<>>
            /\ pc' = "done"
       ELSE /\ requests' = << [Model |-> GetModel(client), Content |-> BuildPrompt(client, msg)] >>
            /\ result' = FailOpen(NIL)
            /\ returns' = 0
            /\ pc' = "awaiting"

\* c.CheckMessageContent(ctx, messageText)
CheckMessageContent(msg) ==
    /\ pc = "idle"
    /\ calls < MaxCalls
    /\ EnterCheckMessageContent("CheckMessageContent", msg)
    /\ UNCHANGED <<client, credential, valid, calls, config>>
    /\ UNCHANGED aux

\* c.FilterMessageWithAI(ctx, messageText)
FilterMessageWithAI(msg) ==
    /\ pc = "idle"
    /\ calls < MaxCalls
    /\ EnterCheckMessageContent("FilterMessageWithAI", msg)
    /\ UNCHANGED <<client, credential, valid, calls, config>>
    /\ UNCHANGED aux

\* The validator function without its `if msg == ""` return.
AcceptableMessageValidator_NoEmptyReturn(msg) ==
    /\ pc = "idle"
    /\ calls < MaxCalls
    /\ EnterCheckMessageContent("AcceptableMessageValidator", msg)
    /\ valid' = IF pc' = "done" THEN AcceptableResult(result') ELSE FALSE
    /\ UNCHANGED <<client, credential, calls, config>>
    /\ UNCHANGED aux

\* AcceptableMessageValidator(groqClient)(fl), fl.Field().String() = msg
AcceptableMessageValidator(msg) ==
    /\ pc = "idle"
    /\ calls < MaxCalls
    /\ IF msg = <<>>
       THEN /\ caller' = "AcceptableMessageValidator"
            /\ messageText' = msg
            /\ checked' = FALSE
            /\ valid' = TRUE
            /\ pc' = "done"
            /\ requests' = <<>>
            /\ resp' = NoAnswer
            /\ result' = FailOpen(NIL)
            /\ returns' = 0
       ELSE /\ EnterCheckMessageContent("AcceptableMessageValidator", msg)
            /\ valid' = IF pc' = "done" THEN AcceptableResult(result') ELSE FALSE
    /\ UNCHANGED <<client, credential, calls, config>>
    /\ UNCHANGED aux

\* A CheckMessageContent that drops its openai client after a failed call.
CreateChatCompletionReturns_DropsClientOnError(r) ==
    /\ pc = "awaiting"
    /\ resp' = r
    /\ result' = AfterCreateChatCompletion(r)
    /\ returns' = returns + 1
    /\ pc' = "done"
    /\ valid' = IF caller = "AcceptableMessageValidator" THEN AcceptableResult(result') ELSE FALSE
    /\ client' = IF r.err # NIL THEN ZeroClient ELSE client
    /\ UNCHANGED <<credential, caller, messageText, checked, requests, calls, config>>
    /\ UNCHANGED aux

\* A CheckMessageContent that sends the request once more after a failed call.
CreateChatCompletionReturns_Retry(r) ==
    /\ pc = "awaiting"
    /\ IF r.err # NIL /\ Len(requests) < 2
       THEN /\ requests' = Append(requests, requests[1])
            /\ UNCHANGED <<pc, resp, result, returns, valid>>
       ELSE /\ resp' = r
            /\ result' = AfterCreateChatCompletion(r)
            /\ returns' = returns + 1
            /\ pc' = "done"
            /\ valid' = IF caller = "AcceptableMessageValidator" THEN AcceptableResult(result') ELSE FALSE
            /\ UNCHANGED requests
    /\ UNCHANGED <<client, credential, caller, messageText, checked, calls, config>>
    /\ UNCHANGED aux

\* CreateChatCompletion returns r; CheckMessageContent runs to its return,
\* and so does the validator function when it is the caller.
CreateChatCompletionReturns(r) ==
    /\ pc = "awaiting"
    /\ resp' = r
    /\ result' = AfterCreateChatCompletion(r)
    /\ returns' = returns + 1
    /\ pc' = "done"
    /\ valid' = IF caller = "AcceptableMessageValidator" THEN AcceptableResult(result') ELSE FALSE
    /\ UNCHANGED <<client, credential, caller, messageText, checked, requests, calls, config>>
    /\ UNCHANGED aux

\* The invocation is over: its locals are gone, the client stays.
ReturnToCaller ==
    /\ pc = "done"
    /\ pc' = "idle"
    /\ caller' = "none"
    /\ messageText' = <<>>
    /\ checked' = FALSE
    /\ requests' = <<>>
    /\ resp' = NoAnswer
    /\ result' = FailOpen(NIL)
    /\ returns' = 0
    /\ valid' = FALSE
    /\ UNCHANGED <<client, credential, config>>

\* The caller has the answer; the next invocation may start.
Finish ==
    /\ ReturnToCaller
    /\ calls' = calls + 1
    /\ UNCHANGED aux

Next ==
    \/ \E cfg \in Configs, env \in Envs : NewClientCall(cfg, env)
    \/ ZeroValueClient
    \/ \E msg \in Messages : CheckMessageContent(msg)
    \/ \E msg \in Messages : FilterMessageWithAI(msg)
    \/ \E msg \in Messages : AcceptableMessageValidator(msg)
    \/ \E r \in Answers : CreateChatCompletionReturns(r)
    \/ Finish

Spec == Init /\ [][Next]_vars

TypeOK ==
    /\ pc \in {"start", "idle", "awaiting", "done"}
    /\ credential \in {"missing", "found", "unused"}
    /\ caller \in {"none", "CheckMessageContent", "FilterMessageWithAI", "AcceptableMessageValidator"}
    /\ messageText \in Messages
    /\ checked \in BOOLEAN
    /\ valid \in BOOLEAN
    /\ calls \in 0..MaxCalls
    /\ resp \in Answers \cup {NoAnswer}


-----------------------------------------------------------------------------
(* containsBlockedTerm on its own: every text and term list of a small    *)
(* scope, and the texts and terms the documentation names.                 *)

\* Longest text and longest term list of the small scope.
MaxTextLen == 3
MaxTerms   == 2

MatchAlphabet == {"a", "B", "1", "_", "-", " "}

MatchTermPool == { <<"a">>, <<"B">>, <<"1">>, <<"a"," ","b">>, <<" ","a"," ">>, <<" ">>, <<>> }

SeqsUpTo(S, n) == UNION { [1..k -> S] : k \in 0..n }

TermAss     == <<"a","s","s">>
TermBadWord == <<"b","a","d"," ","w","o","r","d">>

\* (text, term list) pairs from the documentation of the matcher.
MatchExamples ==
    { <<<<"s","p","a","m">>, << <<"<VT>","s","p","a","m","<VT>">> >>>>,
      <<<<"c","l","a","s","s">>, <<TermAss>>>>,
      <<<<"c","l","a","s","s","r","o","o","m">>, <<TermAss>>>>,
      <<<<"y","o","u"," ","a","s","s","!">>, <<TermAss>>>>,
      <<<<"a","s","s",","," ","y","o","u">>, <<TermAss>>>>,
      <<<<"y","o","u",",","a","s","s">>, <<TermAss>>>>,
      <<<<"c","l","a","s","s"," ","a","s","s">>, <<TermAss>>>>,
      <<<<"a","s","s","1">>, <<TermAss>>>>,
      <<<<"a","_","s","_","s">>, <<TermAss>>>>,
      <<<<"b","a","d","_","w","o","r","d">>, <<TermBadWord>>>>,
      <<<<"b","a","d","-","w","o","r","d">>, <<TermBadWord>>>>,
      <<<<"B","A","D","_","W","o","r","d">>, <<TermBadWord>>>>,
      <<<<"b","a","d","w","o","r","d">>, <<TermBadWord>>>>,
      <<MsgSpam, <<TermSpam>>>>,
      <<MsgSpam, <<TermAss, <<"S","P","A","M"," ">>, TermSpam>>>>,
      <<<<>>, <<TermAss>>>>,
      <<MsgSpam, <<>>>> }

MatchInputs ==
    MatchExamples \cup (SeqsUpTo(MatchAlphabet, MaxTextLen) \X SeqsUpTo(MatchTermPool, MaxTerms))

InitMatch ==
    /\ InitCore
    /\ \E in \in MatchInputs :
          match = [pc |-> "ready", messageText |-> in[1], blockedTerms |-> in[2],
                   found |-> FALSE, term |-> <<>>]
    /\ stub = <<>>
    /\ history = <<>>
    /\ proc = <<>>
    /\ sink = <<>>
    /\ saved = NoSave
    /\ scan = NoScan
    /\ http = NoRequest

\* found, term := containsBlockedTerm(messageText, blockedTerms)
RunContainsBlockedTerm ==
    /\ match.pc = "ready"
    /\ LET out == containsBlockedTerm(match.messageText, match.blockedTerms)
       IN  match' = [match EXCEPT !.pc = "done", !.found = out[1], !.term = out[2]]
    /\ UNCHANGED core
    /\ UNCHANGED <<stub, history, proc, sink, saved, scan, http>>

NextMatch == RunContainsBlockedTerm

SpecMatch == InitMatch /\ [][NextMatch]_vars


-----------------------------------------------------------------------------
(* Properties                                                              *)

\* CheckMessageContent has returned in the current invocation.
Returned == pc = "done" /\ checked

\* The remote call failed, or succeeded with no choice.
CallFailed == resp.gen.shape \in {"error", "empty"}

\* The answer held a text, and by the way the stub wrote it the text is a
\* verdict object json.Unmarshal accepts.
AnswerDecodable ==
    \/ /\ resp.gen.shape = "verdict"
       /\ resp.gen.wrap \in DecodableWraps
       /\ resp.gen.mal # "quoted"
    \/ /\ resp.gen.shape = "text"
       /\ resp.gen.decodable

\* The answer held a text that is not such an object.
AnswerUndecodable ==
    \/ /\ resp.gen.shape = "verdict"
       /\ (resp.gen.wrap \notin DecodableWraps \/ resp.gen.mal = "quoted")
    \/ /\ resp.gen.shape = "text"
       /\ ~resp.gen.decodable

\* By the way the stub wrote it, the text has the word is_malicious, resp. true, in some case.
AnswerHasIsMalicious ==
    \/ resp.gen.shape = "verdict" /\ resp.gen.mal # "absent"
    \/ resp.gen.shape = "text" /\ resp.gen.hasIsMal

AnswerHasTrue ==
    \/ resp.gen.shape = "verdict" /\ (resp.gen.mal \in {"true", "quoted"} \/ resp.gen.reason = Str(ReasonTrue))
    \/ resp.gen.shape = "text" /\ resp.gen.hasTrue

\* C1: whenever a configured client checks a message that matches a term of
\* its blocklist, the check returns (true, CONTENT_INAPPROPRIATE, "", nil)
\* at once and no classifier request is sent in that invocation.
C1_BlocklistMatchRejectsWithoutRemoteCall ==
    ( /\ checked
      /\ pc \in {"awaiting", "done"}
      /\ ~NotInitialized(client)
      /\ containsBlockedTerm(messageText, client.blockedTerms)[1] )
    => ( /\ pc = "done"
         /\ result = Return(TRUE, ContentInappropriate, <<>>, NIL)
         /\ requests = <<>> )

\* C2: without a credential NewClient yields the nil client, and a check on
\* an unconfigured client returns (false, "", "", nil) without a remote call.
C2_UnconfiguredClientFailsOpen ==
    /\ (credential = "missing" => client = NilClient)
    /\ ( (checked /\ NotInitialized(client))
         => ( /\ pc = "done"
              /\ result = Return(FALSE, <<>>, <<>>, NIL)
              /\ requests = <<>>
              /\ resp = NoAnswer ) )

C2_Witness ==
    /\ Returned
    /\ credential = "missing"
    /\ caller = "FilterMessageWithAI"
    /\ messageText = MsgSpam
    /\ result.err = NIL

\* C3: when the remote call fails or returns no choice, the check returns
\* isMalicious=false, empty errorCode and reason, and a non-nil error.
C3_CallFailureFailsOpenWithError ==
    (Returned /\ CallFailed)
    => ( /\ result.isMalicious = FALSE
         /\ result.errorCode = <<>>
         /\ result.reason = <<>>
         /\ result.err # NIL )

C3_Witness ==
    /\ Returned
    /\ resp = ApiError("context deadline exceeded")
    /\ result.err # NIL
    /\ ~result.isMalicious

\* C4: a decodable verdict with is_malicious=true returns (true, its
\* error_code or CONTENT_OTHER when that is empty, null or left out, its
\* reason, nil); with is_malicious=false it returns (false, "", "", nil).
C4_DecodedVerdictIsReproduced ==
    (Returned /\ resp.gen.shape = "verdict" /\ resp.gen.wrap \in DecodableWraps)
    => /\ resp.gen.mal = "true" =>
            result = Return(TRUE,
                            IF resp.gen.code.str = <<>> THEN ContentOther ELSE resp.gen.code.str,
                            resp.gen.reason.str,
                            NIL)
       /\ resp.gen.mal = "false" => result = Return(FALSE, <<>>, <<>>, NIL)

C4_Witness ==
    /\ Returned
    /\ resp = VerdictAnswer("true", Str(ContentScam), Str(ReasonPhish), "none")
    /\ result = Return(TRUE, ContentScam, ReasonPhish, NIL)

\* C5: an undecodable response text returns (true, CONTENT_OTHER, "", nil)
\* when it has both is_malicious and true, in any case, and
\* (false, "", "", nil) otherwise.
C5_UndecodableTextFallsBackToHeuristic ==
    (Returned /\ AnswerUndecodable)
    => result = IF AnswerHasIsMalicious /\ AnswerHasTrue
                THEN Return(TRUE, ContentOther, <<>>, NIL)
                ELSE Return(FALSE, <<>>, <<>>, NIL)

C5_Witness ==
    /\ Returned
    /\ resp = TextAnswer(<<"T","h","e"," ","m","e","s","s","a","g","e"," ","I","S","_","M","A","L","I","C","I","O","U","S",":"," ","T","R","U","E">>, FALSE, TRUE, TRUE)
    /\ result = Return(TRUE, ContentOther, <<>>, NIL)

\* The check returns an error exactly when the remote call failed or
\* returned no choice.
ErrorIffCallFailed ==
    Returned => (result.err # NIL <=> CallFailed)

\* C6: the check returns an error exactly when the remote call failed or
\* returned no choice; a check on an unconfigured client, a check of a
\* message that matches the client's blocklist, an undecodable answer and a
\* decoded verdict never return an error.
C6_ErrorOnlyOnCallFailure ==
    Returned =>
        /\ result.err # NIL <=> CallFailed
        /\ NotInitialized(client) => result.err = NIL
        /\ ( /\ ~NotInitialized(client)
             /\ containsBlockedTerm(messageText, client.blockedTerms)[1] )
           => result.err = NIL
        /\ AnswerUndecodable => result.err = NIL
        /\ AnswerDecodable => result.err = NIL

\* C7: a check that returns isMalicious=false returns an empty errorCode
\* and an empty reason.
C7_NotMaliciousHasNoCodeNoReason ==
    (Returned /\ ~result.isMalicious)
    => (result.errorCode = <<>> /\ result.reason = <<>>)

C7_Witness ==
    /\ Returned
    /\ resp = VerdictAnswer("false", Str(ContentScam), Str(ReasonPhish), "none")
    /\ ~result.isMalicious

\* C8: a check that returns isMalicious=true returns one of the six
\* defined codes.
C8_MaliciousCodeIsDefined ==
    (Returned /\ result.isMalicious) => result.errorCode \in DefinedCodes

\* C9: an invocation sends at most one classifier request and returns
\* once; a failed call, an empty choice list or an undecodable text is not
\* followed by another request.
C9_AtMostOneRequestOneReturn ==
    /\ Len(requests) <= 1
    /\ returns <= 1
    /\ pc = "awaiting" => (Len(requests) = 1 /\ returns = 0)
    /\ Returned => returns = 1
    /\ (Returned /\ (CallFailed \/ AnswerUndecodable)) => Len(requests) = 1

C9_Witness ==
    /\ Returned
    /\ resp = ApiError("connection refused")
    /\ Len(requests) = 1
    /\ returns = 1

\* C10: for a non-empty field the validator answers valid exactly when the
\* check returned no error and isMalicious=false; a failed call makes the
\* field invalid.
C10_ValidatorFailsClosedOnError ==
    (pc = "done" /\ caller = "AcceptableMessageValidator" /\ messageText # <<>>)
    => /\ valid <=> (result.err = NIL /\ ~result.isMalicious)
       /\ CallFailed => ~valid

C10_Witness ==
    /\ pc = "done"
    /\ caller = "AcceptableMessageValidator"
    /\ messageText = MsgHello
    /\ resp = NoChoices
    /\ ~valid


\* C11: for an empty field the validator answers valid whatever the client
\* and the classifier are, and neither CheckMessageContent nor the
\* classifier is invoked.
C11_EmptyFieldIsValidWithoutCheck ==
    (caller = "AcceptableMessageValidator" /\ messageText = <<>> /\ pc # "idle")
    => ( /\ pc = "done"
         /\ valid
         /\ ~checked
         /\ returns = 0
         /\ requests = <<>>
         /\ resp = NoAnswer )

C11_Witness ==
    /\ pc = "done"
    /\ caller = "AcceptableMessageValidator"
    /\ messageText = <<>>
    /\ ~NotInitialized(client)
    /\ valid

\* The message of the current invocation could not be verified: the client
\* is unconfigured, the call failed, or the answer is undecodable and has
\* not both words of the fallback.
Unverifiable ==
    \/ NotInitialized(client)
    \/ CallFailed
    \/ (AnswerUndecodable /\ ~(AnswerHasIsMalicious /\ AnswerHasTrue))

\* C12: for a non-empty field the validator answers invalid whenever the
\* message could not be verified.
C12_ValidatorRejectsUnverifiable ==
    (pc = "done" /\ caller = "AcceptableMessageValidator" /\ messageText # <<>> /\ Unverifiable)
    => ~valid


\* An ASCII letter or digit.
AsciiLetterOrDigit(c) ==
    c \in { "a","b","c","d","e","f","g","h","i","j","k","l","m","n","o","p","q","r","s","t","u",
            "v","w","x","y","z","A","B","C","D","E","F","G","H","I","J","K","L","M","N","O","P",
            "Q","R","S","T","U","V","W","X","Y","Z","0","1","2","3","4","5","6","7","8","9" }

\* term occurs in text with, on each side, the end of the text or a
\* character that is no ASCII letter or digit.
OccursAtWordBoundary(text, term) ==
    \E i \in 1..(Len(text) - Len(term) + 1) :
        /\ SubSeq(text, i, i + Len(term) - 1) = term
        /\ (i = 1 \/ ~AsciiLetterOrDigit(text[i - 1]))
        /\ (i + Len(term) > Len(text) \/ ~AsciiLetterOrDigit(text[i + Len(term)]))

\* text with every '_' and '-' replaced by a space.
SeparatorNormalized(text) ==
    [i \in 1..Len(text) |-> IF text[i] \in {"_", "-"} THEN " " ELSE text[i]]

\* The (non-empty) term occurs at a word boundary in the lowercased text
\* or in its separator-normalized form.
TermOccurs(text, term) ==
    /\ term # <<>>
    /\ \/ OccursAtWordBoundary(ToLower(text), term)
       \/ OccursAtWordBoundary(SeparatorNormalized(ToLower(text)), term)

\* The positions of the list whose term, lowercased and trimmed, occurs in the text.
MatchingPositions(text, terms) ==
    { k \in 1..Len(terms) : TermOccurs(text, ToLower(TrimSpace(terms[k]))) }

FirstOf(positions) == CHOOSE k \in positions : \A j \in positions : k <= j

MatchDone == match.pc = "done"

\* C13 as stated: containsBlockedTerm returns (true, t) for the first term
\* t of the list that occurs in the text at a word boundary, and
\* (false, "") when none does.
C13_ReturnsFirstListedTerm ==
    MatchDone =>
        LET hits == MatchingPositions(match.messageText, match.blockedTerms)
        IN  IF hits = {}
            THEN match.found = FALSE /\ match.term = <<>>
            ELSE match.found = TRUE /\ match.term = match.blockedTerms[FirstOf(hits)]

\* C13 amended: containsBlockedTerm returns (true, t) where t is the
\* lowercased, trimmed form of the first term of the list whose lowercased,
\* trimmed form is not empty and occurs at a word boundary in the
\* lowercased text or its separator-normalized form, and (false, "") when
\* there is no such term.
C13_ReturnsFirstListedTermNormalized ==
    MatchDone =>
        LET hits == MatchingPositions(match.messageText, match.blockedTerms)
        IN  IF hits = {}
            THEN match.found = FALSE /\ match.term = <<>>
            ELSE /\ match.found = TRUE
                 /\ match.term = ToLower(TrimSpace(match.blockedTerms[FirstOf(hits)]))

C13_Witness ==
    /\ MatchDone
    /\ match.messageText = <<"a"," ","B">>
    /\ match.blockedTerms = <<<<"B">>, <<"a">>>>
    /\ match.found
    /\ match.term = <<"b">>

MatchRan(text, terms) ==
    MatchDone /\ match.messageText = text /\ match.blockedTerms = terms

\* C14: a match is always through an occurrence with a boundary on each
\* side; "ass" does not match "class", "classroom" or "ass1" and matches
\* "you ass!", "ass, you" and "you,ass".
C14_MatchOnlyAtWordBoundaries ==
    /\ (MatchDone /\ match.found) =>
          \/ OccursAtWordBoundary(ToLower(match.messageText), match.term)
          \/ OccursAtWordBoundary(SeparatorNormalized(ToLower(match.messageText)), match.term)
    /\ MatchRan(<<"c","l","a","s","s">>, <<TermAss>>) => ~match.found
    /\ MatchRan(<<"c","l","a","s","s","r","o","o","m">>, <<TermAss>>) => ~match.found
    /\ MatchRan(<<"a","s","s","1">>, <<TermAss>>) => ~match.found
    /\ MatchRan(<<"y","o","u"," ","a","s","s","!">>, <<TermAss>>) => (match.found /\ match.term = TermAss)
    /\ MatchRan(<<"a","s","s",","," ","y","o","u">>, <<TermAss>>) => (match.found /\ match.term = TermAss)
    /\ MatchRan(<<"y","o","u",",","a","s","s">>, <<TermAss>>) => (match.found /\ match.term = TermAss)

C14_Witness ==
    /\ MatchRan(<<"c","l","a","s","s","r","o","o","m">>, <<TermAss>>)
    /\ ~match.found

\* C15: matching ignores case and takes '_' and '-' for spaces, and only
\* these: "bad word" matches "bad_word", "bad-word" and "BAD_Word", "ass"
\* does not match "a_s_s", and a text matches exactly when its lowercased
\* form matches the lowercased terms.
C15_CaseInsensitiveSeparatorNormalized ==
    /\ MatchRan(<<"b","a","d","_","w","o","r","d">>, <<TermBadWord>>) => (match.found /\ match.term = TermBadWord)
    /\ MatchRan(<<"b","a","d","-","w","o","r","d">>, <<TermBadWord>>) => (match.found /\ match.term = TermBadWord)
    /\ MatchRan(<<"B","A","D","_","W","o","r","d">>, <<TermBadWord>>) => (match.found /\ match.term = TermBadWord)
    /\ MatchRan(<<"b","a","d","w","o","r","d">>, <<TermBadWord>>) => ~match.found
    /\ MatchRan(<<"a","_","s","_","s">>, <<TermAss>>) => ~match.found
    /\ MatchDone =>
          <<match.found, match.term>> =
              containsBlockedTerm(ToLower(match.messageText),
                                  [k \in 1..Len(match.blockedTerms) |-> ToLower(match.blockedTerms[k])])

C15_Witness ==
    /\ MatchRan(<<"B","A","D","_","W","o","r","d">>, <<TermBadWord>>)
    /\ match.found


\* C16: a verdict JSON wrapped in a json-tagged or a bare fence, with or
\* without whitespace around the fence and the JSON, gives the result that
\* the same JSON gives unwrapped.
C16_FencedAnswerEqualsUnfenced ==
    (Returned /\ resp.gen.shape = "verdict" /\ resp.gen.wrap \in FencedWraps)
    => result = AfterCreateChatCompletion(
                    VerdictAnswer(resp.gen.mal, resp.gen.code, resp.gen.reason, "none"))

C16_Witness ==
    /\ Returned
    /\ resp = VerdictAnswer("true", Str(ContentScam), Str(ReasonPhish), "barepadded")
    /\ result = Return(TRUE, ContentScam, ReasonPhish, NIL)


\* NewClient returned a client (the credential was there).
Constructed == pc # "start" /\ credential = "found"

\* What a constructed client holds as its blocked terms, by its Config.
InstalledTermsFollowConfig ==
    Constructed =>
        /\ config.BlockedTerms.isNil => client.blockedTerms = defaultBlockedTerms
        /\ ~config.BlockedTerms.isNil => client.blockedTerms = config.BlockedTerms.elems

\* A client made with an explicit empty list rejects no message on its own:
\* every check sends its request, and what it returns is what the answer
\* of the classifier gives.
EmptyListGoesToClassifier ==
    (Constructed /\ ~config.BlockedTerms.isNil /\ Len(config.BlockedTerms.elems) = 0) =>
        /\ Len(client.blockedTerms) = 0
        /\ (checked /\ pc \in {"awaiting", "done"}) => Len(requests) = 1
        /\ Returned => result = AfterCreateChatCompletion(resp)

\* C19: NewClient installs the embedded default list for a nil
\* BlockedTerms and the empty list for an explicit empty one; a client with
\* the empty list sends every message to the classifier and returns what
\* the classifier answer gives; no step after construction changes the list.
C19_BlocklistInstalledAtConstruction ==
    /\ [](InstalledTermsFollowConfig /\ EmptyListGoesToClassifier)
    /\ [][pc # "start" => client'.blockedTerms = client.blockedTerms]_vars

C19_Witness ==
    /\ Returned
    /\ Constructed
    /\ config.BlockedTerms = Slice(<<>>)
    /\ client.blockedTerms = <<>>
    /\ messageText = MsgSpam
    /\ Len(requests) = 1
    /\ resp.gen.shape = "verdict"
    /\ ~result.isMalicious


-----------------------------------------------------------------------------
(* Repeated calls on one client with a deterministic stubbed classifier    *)

\* The number of calls made on the client.
MaxRepeatCalls == 3

RepeatMessages == {MsgHello, MsgSpam}

\* What the stub may answer to a message.
RepeatAnswers ==
    { ApiError("status code: 500"),
      VerdictAnswer("true", Str(ContentScam), Str(ReasonPhish), "json"),
      VerdictAnswer("false", Null, Absent, "none"),
      TextAnswer(<<"T","h","e"," ","m","e","s","s","a","g","e"," ","I","S","_","M","A","L","I","C","I","O","U","S",":"," ","T","R","U","E">>, FALSE, TRUE, TRUE) }

\* A stubbed classifier: the answer is a function of the message in the request.
Stubs == [RepeatMessages -> RepeatAnswers]

InitRepeat ==
    /\ InitCore
    /\ stub \in Stubs
    /\ history = <<>>
    /\ match = NoMatch
    /\ proc = <<>>
    /\ sink = <<>>
    /\ saved = NoSave
    /\ scan = NoScan
    /\ http = NoRequest

\* c.CheckMessageContent(ctx, msg), once more on the same client
RepeatCheckMessageContent(msg) ==
    /\ pc = "idle"
    /\ Len(history) < MaxRepeatCalls
    /\ EnterCheckMessageContent("CheckMessageContent", msg)
    /\ UNCHANGED <<client, credential, valid, calls, config>>
    /\ UNCHANGED aux

\* The stub answers the request of the call in progress.
StubAnswers ==
    /\ pc = "awaiting"
    /\ CreateChatCompletionReturns(stub[messageText])

\* The caller notes what the call returned for its text.
RepeatFinish ==
    /\ ReturnToCaller
    /\ history' = Append(history, [messageText |-> messageText, result |-> result])
    /\ UNCHANGED calls
    /\ UNCHANGED <<match, stub, proc, sink, saved, scan, http>>

NextRepeat ==
    \/ \E cfg \in Configs, env \in Envs : NewClientCall(cfg, env)
    \/ ZeroValueClient
    \/ \E msg \in RepeatMessages : RepeatCheckMessageContent(msg)
    \/ StubAnswers
    \/ RepeatFinish

SpecRepeat == InitRepeat /\ [][NextRepeat]_vars

\* C17: a call returns what every earlier call on the same client with the
\* same message text returned (isMalicious, errorCode, reason and error),
\* whatever calls came in between.
C17_SameTextSameResult ==
    Returned =>
        \A i \in 1..Len(history) :
            history[i].messageText = messageText => history[i].result = result

C17_Witness ==
    /\ Returned
    /\ Len(history) = 2
    /\ history[1].messageText = messageText
    /\ history[2].messageText # messageText
    /\ history[2].result # result
    /\ history[1].result = result
    /\ result.err # NIL


-----------------------------------------------------------------------------
(* Concurrent calls of CheckMessageContent on one client                   *)

\* The number of goroutines calling the same client.
NumCallers == 2

Callers == 1..NumCallers

\* The locals of one call: where it is, its argument, the requests it sent,
\* the response it got and what it returned.
IdleCall == [pc |-> "idle", messageText |-> <<>>, requests |-> <<>>, resp |-> NoAnswer, result |-> FailOpen(NIL)]

InitConc ==
    /\ InitCore
    /\ proc = [i \in Callers |-> IdleCall]
    /\ stub = <<>>
    /\ history = <<>>
    /\ match = NoMatch
    /\ sink = <<>>
    /\ saved = NoSave
    /\ scan = NoScan
    /\ http = NoRequest

\* Caller i enters CheckMessageContent: `if c == nil || c.client == nil`.
ConcEnter(i, msg) ==
    /\ pc = "idle"
    /\ proc[i].pc = "idle"
    /\ proc' = [proc EXCEPT ![i] =
                  IF NotInitialized(client)
                  THEN [IdleCall EXCEPT !.pc = "done", !.messageText = msg, !.result = FailOpen(NIL)]
                  ELSE [IdleCall EXCEPT !.pc = "entered", !.messageText = msg]]
    /\ UNCHANGED core
    /\ UNCHANGED <<match, stub, history, sink, saved, scan, http>>

\* Caller i reads c.model and c.promptBuilder and sends its request.
ConcSend(i) ==
    /\ proc[i].pc = "entered"
    /\ proc' = [proc EXCEPT ![i].pc = "awaiting",
                            ![i].requests = << [Model |-> GetModel(client),
                                                Content |-> BuildPrompt(client, proc[i].messageText)] >>]
    /\ UNCHANGED core
    /\ UNCHANGED <<match, stub, history, sink, saved, scan, http>>

\* CreateChatCompletion returns r to caller i, into its local resp.
ConcReceive(i, r) ==
    /\ proc[i].pc = "awaiting"
    /\ proc' = [proc EXCEPT ![i].pc = "received", ![i].resp = r]
    /\ UNCHANGED core
    /\ UNCHANGED <<match, stub, history, sink, saved, scan, http>>

\* A CheckMessageContent that keeps the response in a place all calls
\* share: caller i reads what the first caller holding a response holds.
ConcReturn_SharedResponse(i) ==
    /\ proc[i].pc = "received"
    /\ LET holders == { j \in Callers : proc[j].pc \in {"received", "done"} /\ Len(proc[j].requests) = 1 }
           first   == CHOOSE j \in holders : \A k \in holders : j <= k
       IN  proc' = [proc EXCEPT ![i].pc = "done",
                                ![i].result = AfterCreateChatCompletion(proc[first].resp)]
    /\ UNCHANGED core
    /\ UNCHANGED <<match, stub, history, sink, saved, scan, http>>

\* Caller i runs from the error check to its return on its own resp.
ConcReturn(i) ==
    /\ proc[i].pc = "received"
    /\ proc' = [proc EXCEPT ![i].pc = "done",
                            ![i].result = AfterCreateChatCompletion(proc[i].resp)]
    /\ UNCHANGED core
    /\ UNCHANGED <<match, stub, history, sink, saved, scan, http>>

NextConc ==
    \/ \E cfg \in Configs, env \in Envs : NewClientCall(cfg, env)
    \/ ZeroValueClient
    \/ \E i \in Callers, msg \in RepeatMessages : ConcEnter(i, msg)
    \/ \E i \in Callers : ConcSend(i)
    \/ \E i \in Callers, r \in RepeatAnswers : ConcReceive(i, r)
    \/ \E i \in Callers : ConcReturn(i)

SpecConc == InitConc /\ [][NextConc]_vars

\* What a call with text msg returns when it runs alone on client c and
\* the classifier answers r.
AloneResult(c, r) ==
    IF NotInitialized(c) THEN FailOpen(NIL) ELSE AfterCreateChatCompletion(r)

\* C18: under every interleaving of the steps of concurrent calls, no step
\* after construction writes the client (classifier handle, model, prompt
\* builder, blocked terms), each request is built from the client and the
\* text of its own call, and each call returns what it returns when run
\* alone with the answer it received.
C18_ConcurrentCallsAreIndependent ==
    /\ [](\A i \in Callers :
            /\ proc[i].pc = "done" => proc[i].result = AloneResult(client, proc[i].resp)
            /\ Len(proc[i].requests) <= 1
            /\ Len(proc[i].requests) = 1 =>
                   proc[i].requests[1] = [Model |-> GetModel(client),
                                          Content |-> BuildPrompt(client, proc[i].messageText)])
    /\ [][pc # "start" => client' = client]_vars

C18_Witness ==
    /\ proc[1].pc = "received"
    /\ proc[2].pc = "done"
    /\ proc[1].resp = VerdictAnswer("true", Str(ContentScam), Str(ReasonPhish), "json")
    /\ proc[2].resp = VerdictAnswer("false", Null, Absent, "none")
    /\ proc[1].messageText = proc[2].messageText
    /\ proc[2].result = Return(FALSE, <<>>, <<>>, NIL)


-----------------------------------------------------------------------------
(* The verdict sink: MaliciousMessageSaver and SaveMaliciousMessage        *)

\* The number of calls of SaveMaliciousMessage a caller makes.
MaxSaves == 2

\* Implementations of MaliciousMessageSaver a caller may pass: one whose
\* method returns nil, one whose method returns an error, and a nil pointer
\* in a non-nil interface value, whose method answers for its receiver.
Savers ==
    { NilSaver,
      [isNil |-> FALSE, name |-> "dbSaver", returns |-> NIL],
      [isNil |-> FALSE, name |-> "failingSaver", returns |-> "db: connection lost"],
      [isNil |-> FALSE, name |-> "(*dbSaver)(nil)", returns |-> "saver: nil receiver"] }

\* (fromUserID, toUserID, messageText, errorCode, reason, currentTime)
SaveArgs ==
    { <<1, 2, MsgSpam, ContentSpam, ReasonPhish, "2026-01-02 15:04:05">>,
      <<2, 1, MsgHello, <<>>, <<>>, "">> }

InitSave ==
    /\ InitCore
    /\ sink = <<>>
    /\ saved = NoSave
    /\ scan = NoScan
    /\ http = NoRequest
    /\ match = NoMatch
    /\ stub = <<>>
    /\ history = <<>>
    /\ proc = <<>>

\* SaveMaliciousMessage that does not hand the error of the saver on.
SaveMaliciousMessage_SwallowsError(saver, args) ==
    /\ pc \in {"idle", "done"}
    /\ saved.n < MaxSaves
    /\ sink' = IF saver.isNil THEN sink ELSE Append(sink, [saver |-> saver.name, args |-> args])
    /\ saved' = [n |-> saved.n + 1, saver |-> saver, args |-> args, err |-> NIL]
    /\ UNCHANGED core
    /\ UNCHANGED <<match, stub, history, proc, scan, http>>

\* groq.SaveMaliciousMessage(saver, fromUserID, toUserID, messageText, errorCode, reason, currentTime)
SaveMaliciousMessage(saver, args) ==
    /\ pc \in {"idle", "done"}
    /\ saved.n < MaxSaves
    /\ IF saver.isNil
       THEN /\ sink' = sink
            /\ saved' = [n |-> saved.n + 1, saver |-> saver, args |-> args, err |-> NIL]
       ELSE /\ sink' = Append(sink, [saver |-> saver.name, args |-> args])
            /\ saved' = [n |-> saved.n + 1, saver |-> saver, args |-> args, err |-> saver.returns]
    /\ UNCHANGED core
    /\ UNCHANGED <<match, stub, history, proc, scan, http>>

NextSave ==
    \/ \E cfg \in Configs, env \in Envs : NewClientCall(cfg, env)
    \/ \E msg \in RepeatMessages : CheckMessageContent(msg)
    \/ \E msg \in RepeatMessages : FilterMessageWithAI(msg)
    \/ \E r \in RepeatAnswers : CreateChatCompletionReturns(r)
    \/ Finish
    \/ \E saver \in Savers, args \in SaveArgs : SaveMaliciousMessage(saver, args)

SpecSave == InitSave /\ [][NextSave]_vars

\* C20: a step of NewClient, CheckMessageContent or FilterMessageWithAI
\* leaves the sink alone; SaveMaliciousMessage with a nil saver returns nil
\* and leaves the sink alone; with a non-nil saver it invokes that saver
\* once with its six arguments as given and returns what the saver returned.
C20_SinkInvokedOnlyBySaveMaliciousMessage ==
    [][ /\ saved' = saved => sink' = sink
        /\ saved' # saved =>
              IF saved'.saver.isNil
              THEN sink' = sink /\ saved'.err = NIL
              ELSE /\ sink' = Append(sink, [saver |-> saved'.saver.name, args |-> saved'.args])
                   /\ saved'.err = saved'.saver.returns ]_vars

C20_Witness ==
    /\ Returned
    /\ result.isMalicious
    /\ saved.n = 2
    /\ saved.saver.name = "failingSaver"
    /\ saved.err = "db: connection lost"
    /\ Len(sink) = 1
    /\ sink[1].args[1] = 1
    /\ sink[1].args[2] = 2


-----------------------------------------------------------------------------
(* The occurrence scan of isWholeWord, one iteration at a time             *)

\* The longest message and the longest term the scan is run on, besides
\* the named examples.
MaxScanLen  == 4
MaxScanTerm == 3

\* The named examples, and every message over {a, 1, space, _} with every
\* term over {a, A, space} up to the two lengths.
ScanInputs ==
    { <<<<"c","l","a","s","s"," ","a","s","s">>, TermAss>>,
      <<<<"c","l","a","s","s","r","o","o","m">>, TermAss>>,
      <<<<"a","s","s","a","s","s","i","n"," ","a","s","s">>, TermAss>>,
      <<<<"1","a"," ","a"," ","a">>, <<"a"," ","a">>>>,
      <<<<"a","a","a"," ","a","a">>, <<"a","a">>>>,
      <<<<"b","a","d","_","w","o","r","d">>, TermBadWord>>,
      <<<<"B","A","D","_","W","o","r","d">>, <<" ","B","a","d"," ","W","O","R","D"," ">>>>,
      <<<<"a","b","c">>, <<>>>> }
    \cup (SeqsUpTo({"a", "1", " ", "_"}, MaxScanLen) \X SeqsUpTo({"a", "A", " "}, MaxScanTerm))

InitScan ==
    /\ InitCore
    /\ \E in \in ScanInputs :
          scan = [pc |-> "ready", via |-> "none", message |-> in[1], term |-> in[2],
                  index |-> 0, result |-> FALSE]
    /\ match = NoMatch
    /\ stub = <<>>
    /\ history = <<>>
    /\ proc = <<>>
    /\ sink = <<>>
    /\ saved = NoSave
    /\ http = NoRequest

\* isWholeWord(message, term) is entered: index := 0.
CallIsWholeWord ==
    /\ scan.pc = "ready"
    /\ scan' = [scan EXCEPT !.pc = "loop", !.via = "isWholeWord", !.index = 0]
    /\ UNCHANGED core
    /\ UNCHANGED <<match, stub, history, proc, sink, saved, http>>

\* containsBlockedTerm(message, {term}) comes to the term: it skips a term
\* that is empty once lowercased and trimmed, returns without a scan when
\* neither copy of the message contains it, and else calls isWholeWord on
\* the lowercased message and, when that is false, on the normalized one.
RangeBlockedTerm(normalized) ==
    /\ scan.pc = "ready"
    /\ LET messageLower      == ToLower(scan.message)
           normalizedMessage == ReplaceAll(ReplaceAll(messageLower, "_", " "), "-", " ")
           termLower         == ToLower(TrimSpace(scan.term))
       IN  IF termLower = <<>>
           THEN /\ ~normalized
                /\ scan' = [scan EXCEPT !.pc = "skipped", !.via = "containsBlockedTerm", !.term = termLower]
           ELSE IF ~(Contains(messageLower, termLower) \/ Contains(normalizedMessage, termLower))
           THEN /\ ~normalized
                /\ scan' = [scan EXCEPT !.pc = "done", !.via = "containsBlockedTerm", !.term = termLower,
                                        !.message = messageLower, !.result = FALSE]
           ELSE IF ~normalized
           THEN scan' = [scan EXCEPT !.pc = "loop", !.via = "containsBlockedTerm", !.term = termLower,
                                     !.message = messageLower, !.index = 0]
           ELSE /\ ~isWholeWord(messageLower, termLower)
                /\ scan' = [scan EXCEPT !.pc = "loop", !.via = "containsBlockedTerm", !.term = termLower,
                                        !.message = normalizedMessage, !.index = 0]
    /\ UNCHANGED core
    /\ UNCHANGED <<match, stub, history, proc, sink, saved, http>>

\* The loop going on behind the end of the occurrence it has looked at.
ScanIteration_SkipsOccurrence ==
    /\ scan.pc = "loop"
    /\ IF scan.index > Len(scan.message)
       THEN scan' = [scan EXCEPT !.pc = "panic"]
       ELSE LET pos == Index(SliceFrom(scan.message, scan.index), scan.term)
                actualPos == scan.index + pos
                beforeOK  == IF actualPos = 0 THEN TRUE
                             ELSE ~isAlphanumeric(scan.message[actualPos])
                afterPos  == actualPos + Len(scan.term)
                afterOK   == IF afterPos >= Len(scan.message) THEN TRUE
                             ELSE ~isAlphanumeric(scan.message[afterPos + 1])
            IN  IF pos = -1 THEN scan' = [scan EXCEPT !.pc = "done", !.result = FALSE]
                ELSE IF beforeOK /\ afterOK THEN scan' = [scan EXCEPT !.pc = "done", !.result = TRUE]
                ELSE scan' = [scan EXCEPT !.index = actualPos + Len(scan.term)]
    /\ UNCHANGED core
    /\ UNCHANGED <<match, stub, history, proc, sink, saved, http>>

\* The loop with `index = actualPos` for its last statement.
ScanIteration_StaysAtOccurrence ==
    /\ scan.pc = "loop"
    /\ IF scan.index > Len(scan.message)
       THEN scan' = [scan EXCEPT !.pc = "panic"]
       ELSE LET pos == Index(SliceFrom(scan.message, scan.index), scan.term)
                actualPos == scan.index + pos
                beforeOK  == IF actualPos = 0 THEN TRUE
                             ELSE ~isAlphanumeric(scan.message[actualPos])
                afterPos  == actualPos + Len(scan.term)
                afterOK   == IF afterPos >= Len(scan.message) THEN TRUE
                             ELSE ~isAlphanumeric(scan.message[afterPos + 1])
            IN  IF pos = -1 THEN scan' = [scan EXCEPT !.pc = "done", !.result = FALSE]
                ELSE IF beforeOK /\ afterOK THEN scan' = [scan EXCEPT !.pc = "done", !.result = TRUE]
                ELSE scan' = [scan EXCEPT !.index = actualPos]
    /\ UNCHANGED core
    /\ UNCHANGED <<match, stub, history, proc, sink, saved, http>>

\* One iteration of the `for` of isWholeWord.  message[index:] panics when
\* index is behind the end of the message; message[actualPos-1] and
\* message[afterPos] are read under the conditions of the code.
ScanIteration ==
    /\ scan.pc = "loop"
    /\ IF scan.index > Len(scan.message)
       THEN scan' = [scan EXCEPT !.pc = "panic"]
       ELSE LET pos == Index(SliceFrom(scan.message, scan.index), scan.term)
                actualPos == scan.index + pos
                beforeOK  == IF actualPos = 0 THEN TRUE
                             ELSE ~isAlphanumeric(scan.message[actualPos])
                afterPos  == actualPos + Len(scan.term)
                afterOK   == IF afterPos >= Len(scan.message) THEN TRUE
                             ELSE ~isAlphanumeric(scan.message[afterPos + 1])
            IN  IF pos = -1 THEN scan' = [scan EXCEPT !.pc = "done", !.result = FALSE]
                ELSE IF beforeOK /\ afterOK THEN scan' = [scan EXCEPT !.pc = "done", !.result = TRUE]
                ELSE scan' = [scan EXCEPT !.index = actualPos + 1]
    /\ UNCHANGED core
    /\ UNCHANGED <<match, stub, history, proc, sink, saved, http>>

NextScan ==
    \/ CallIsWholeWord
    \/ \E normalized \in BOOLEAN : RangeBlockedTerm(normalized)
    \/ ScanIteration

\* The goroutine running the function keeps running.
SpecScan == InitScan /\ [][NextScan]_vars /\ WF_vars(NextScan)

\* The 0-based positions at which the term occurs in the message.
Occurrences(message, term) ==
    { i \in 0..(Len(message) - Len(term)) : SubSeq(message, i + 1, i + Len(term)) = term }

\* C21: isWholeWord returns true exactly when some occurrence of the term
\* in the message, overlapping ones included, has a boundary on each side;
\* "ass" is found in "class ass" although its first occurrence is inside
\* "class".
C21_ScanExaminesEveryOccurrence ==
    /\ (scan.pc = "done" /\ scan.via = "isWholeWord" /\ scan.term # <<>>)
          => scan.result = OccursAtWordBoundary(scan.message, scan.term)
    /\ (scan.pc = "done" /\ scan.via = "isWholeWord"
          /\ scan.message = <<"c","l","a","s","s"," ","a","s","s">> /\ scan.term = TermAss) => scan.result
    /\ (scan.pc = "loop" /\ scan.term # <<>> /\ scan.index <= Len(scan.message))
          => \A i \in Occurrences(scan.message, scan.term) :
                i < scan.index =>
                    \/ (i > 0 /\ AsciiLetterOrDigit(scan.message[i]))
                    \/ (i + Len(scan.term) < Len(scan.message)
                          /\ AsciiLetterOrDigit(scan.message[i + Len(scan.term) + 1]))

C21_Witness ==
    /\ scan.pc = "done"
    /\ scan.via = "isWholeWord"
    /\ scan.message = <<"1","a"," ","a"," ","a">>
    /\ scan.term = <<"a"," ","a">>
    /\ scan.index = 2
    /\ scan.result


\* C22: the scan of isWholeWord for a term that is not empty never slices
\* the message behind its end, moves its index forward in every iteration
\* that goes on, and comes to its return; containsBlockedTerm hands no
\* empty term to the scan, so it never panics and always returns.
C22_ScanTerminatesInRange ==
    /\ [](scan.term # <<>> => (scan.pc # "panic" /\ scan.index <= Len(scan.message)))
    /\ [](scan.via = "containsBlockedTerm" =>
             /\ scan.pc # "panic"
             /\ scan.pc \in {"loop", "done"} => scan.term # <<>>
             /\ scan.pc = "skipped" => scan.term = <<>>)
    /\ [][(scan.pc = "loop" /\ scan'.pc = "loop") => scan'.index > scan.index]_vars
    /\ <>(scan.pc \in {"done", "skipped"} \/ (scan.via = "isWholeWord" /\ scan.term = <<>>))

C22_Witness ==
    /\ scan.pc = "done"
    /\ scan.via = "containsBlockedTerm"
    /\ scan.message = <<"c","l","a","s","s","r","o","o","m">>
    /\ scan.term = TermAss
    /\ scan.index = 3
    /\ ~scan.result


-----------------------------------------------------------------------------
(* JWTMiddleware and optionalJWTMiddleware                                 *)

\* A header or a token is a sequence of characters in which a segment of
\* base64 text stands as one element: "eyJ.." texts are named by what they
\* decode to, and hold neither a space nor a dot.

RECURSIVE SplitOn(_, _, _)
\* strings.Split(s, sep) for a one-character sep; cur is the part being collected.
SplitOn(s, sep, cur) ==
    IF s = <<>> THEN <<cur>>
    ELSE IF Head(s) = sep THEN <<cur>> \o SplitOn(Tail(s), sep, <<>>)
    ELSE SplitOn(Tail(s), sep, Append(cur, Head(s)))

Split(s, sep) == SplitOn(s, sep, <<>>)

StatusUnauthorized == 401
StatusForbidden    == 403

\* The header segments a token may start with and the alg they decode to.
Alg == [hdrHS256 |-> "HS256", hdrHS512 |-> "HS512", hdrNone |-> "none", hdrRS256 |-> "RS256"]

\* The claims segments and the CustomClaims they decode to (a claim that
\* is absent leaves the zero value).
DecodeClaims ==
    [clmCurrent      |-> [ID |-> "7", IssuedAt |-> 100, ExpirationTime |-> 300],
     clmExpired      |-> [ID |-> "7", IssuedAt |-> 100, ExpirationTime |-> 150],
     clmNotYetIssued |-> [ID |-> "8", IssuedAt |-> 350, ExpirationTime |-> 400],
     clmNoExp        |-> [ID |-> "9", IssuedAt |-> 100, ExpirationTime |-> 0]]

\* The signature segment of header.claims under key, as Sign computes it.
Sign(alg, signingInput, key) ==
    "sig(" \o alg \o "," \o signingInput[1] \o "." \o signingInput[3] \o "," \o key \o ")"

\* CustomClaims.Valid without its check of ExpirationTime.
CustomClaimsValid_IgnoresExpiry(c, now) ==
    IF c.IssuedAt > now THEN "token used before issued" ELSE NIL

\* CustomClaims.Valid(), time.Now().Unix() being now.
CustomClaimsValid(c, now) ==
    IF c.ExpirationTime < now THEN "token is expired"
    ELSE IF c.IssuedAt > now THEN "token used before issued"
    ELSE NIL

NoClaims == [ID |-> "", IssuedAt |-> 0, ExpirationTime |-> 0]

\* What jwt.ParseWithClaims returns with the key function of the
\* middlewares: (token, err), token carrying Valid and Claims.
ParseWithClaims(tokenString, jwtSecret, now) ==
    LET parts == Split(tokenString, ".")
    IN  IF Len(parts) # 3
        THEN [tokenNil |-> TRUE, valid |-> FALSE, claims |-> NoClaims,
              err |-> "token contains an invalid number of segments"]
        ELSE IF Len(parts[1]) # 1 \/ Len(parts[2]) # 1
                \/ parts[1][1] \notin DOMAIN Alg \/ parts[2][1] \notin DOMAIN DecodeClaims
        THEN [tokenNil |-> FALSE, valid |-> FALSE, claims |-> NoClaims,
              err |-> "token is malformed"]
        ELSE LET alg     == Alg[parts[1][1]]
                 claims  == DecodeClaims[parts[2][1]]
                 keyErr  == alg \notin {"HS256", "HS384", "HS512"}
                 claimsErr == CustomClaimsValid(claims, now)
                 sigOK   == parts[3] = << Sign(alg, SubSeq(tokenString, 1, 3), jwtSecret) >>
             IN  IF keyErr
                 THEN [tokenNil |-> FALSE, valid |-> FALSE, claims |-> claims,
                       err |-> "unexpected signing method: " \o alg]
                 ELSE IF claimsErr # NIL
                 THEN [tokenNil |-> FALSE, valid |-> FALSE, claims |-> claims, err |-> claimsErr]
                 ELSE IF ~sigOK
                 THEN [tokenNil |-> FALSE, valid |-> FALSE, claims |-> claims,
                       err |-> "signature is invalid"]
                 ELSE [tokenNil |-> FALSE, valid |-> TRUE, claims |-> claims, err |-> NIL]


\* The secret the middlewares are made with.
JwtSecret == "s3cret"

\* header.claims.signature, the signature made under key.
SignedToken(h, c, key) ==
    <<h, ".", c, ".", Sign(Alg[h], <<h, ".", c>>, key)>>

\* The account SwaggerBasicAuth is made with.
SwaggerEmail    == "admin"
SwaggerPassword == "pw"

\* base64.StdEncoding.EncodeToString of user + ":" + password, for the
\* credentials of the requests.
StdEncoding ==
    (<<"admin", ":", "pw">> :> "YWRtaW46cHc=") @@ (<<"admin", ":", "no">> :> "YWRtaW46bm8=")

\* gin's authorizationHeader(user, password): the header value an account
\* is found by.
authorizationHeader(user, password) ==
    <<"B", "a", "s", "i", "c", " ", StdEncoding[<<user, ":", password>>]>>

\* The values of the Authorization header: nothing, a token alone, and a
\* token behind a scheme word with one space, two spaces or a space behind
\* it.  The tokens are signed under the secret or another key or not at
\* all, or are tampered, truncated or no token.  Basic credentials are
\* those of the account, a wrong password, a lower-case scheme word and a
\* space behind the credentials.
AuthorizationHeaders ==
    LET Bearer == <<"B", "e", "a", "r", "e", "r">>
        Basic  == <<"B", "a", "s", "i", "c">>
        current == Sign("HS256", <<"hdrHS256", ".", "clmCurrent">>, JwtSecret)
        TokenStrings ==
            { SignedToken(h, c, key) : h \in DOMAIN Alg, c \in DOMAIN DecodeClaims, key \in {JwtSecret, "0ther"} }
            \cup { <<h, ".", c, ".">> : h \in DOMAIN Alg, c \in DOMAIN DecodeClaims }
            \cup { <<"hdrHS256", ".", "clmCurrent", ".", Sign("HS256", <<"hdrHS256", ".", "clmExpired">>, JwtSecret)>>,
                   <<"hdrHS256", ".", "clmCurrent">>,
                   <<"%%%", ".", "clmCurrent", ".", current>>,
                   <<"hdrHS256", ".", "%%%", ".", current>>,
                   <<"g", "a", "r", "b", "a", "g", "e">>,
                   <<>> }
    IN  { <<>>, <<" ">>, Bearer }
        \cup { t : t \in TokenStrings }
        \cup { Bearer \o <<" ">> \o t : t \in TokenStrings }
        \cup { Basic \o <<" ">> \o t : t \in TokenStrings }
        \cup { <<" ">> \o t : t \in TokenStrings }
        \cup { Bearer \o <<" ", " ">> \o t : t \in TokenStrings }
        \cup { Bearer \o <<" ">> \o t \o <<" ">> : t \in TokenStrings }
        \cup { authorizationHeader(SwaggerEmail, SwaggerPassword),
               authorizationHeader(SwaggerEmail, "no"),
               <<"b", "a", "s", "i", "c", " ", StdEncoding[<<SwaggerEmail, ":", SwaggerPassword>>]>>,
               authorizationHeader(SwaggerEmail, SwaggerPassword) \o <<" ">> }

\* The gin.Context of a request before any middleware runs: chain is the
\* middlewares that have run on it, nextCalls the calls of c.Next().
Request(header, now) ==
    [pc |-> "ready", chain |-> <<>>, header |-> header, now |-> now,
     status |-> 0, aborted |-> FALSE, userSet |-> FALSE, user |-> NoClaims, nextCalls |-> 0,
     wwwAuthenticate |-> "", clientIPSet |-> FALSE, clientIP |-> <<>>]

InitJWT ==
    /\ InitCore
    /\ \E header \in AuthorizationHeaders, now \in {200, 300} : http = Request(header, now)
    /\ match = NoMatch
    /\ stub = <<>>
    /\ history = <<>>
    /\ proc = <<>>
    /\ sink = <<>>
    /\ saved = NoSave
    /\ scan = NoScan

\* c.AbortWithStatus(code)
AbortWithStatus(c, code) == [c EXCEPT !.status = code, !.aborted = TRUE]

\* c.Next(): the handlers behind the middleware run.
CallNext(c) == [c EXCEPT !.nextCalls = c.nextCalls + 1]

\* c.Set("user", claims)
SetUser(c, claims) == [c EXCEPT !.userSet = TRUE, !.user = claims]

\* The handler JWTMiddleware(jwtSecret) returns, run on the context c.
RequiredHandler(c, jwtSecret) ==
    IF c.header = <<>> THEN AbortWithStatus(c, StatusUnauthorized)
    ELSE LET tokenSplit == Split(c.header, " ")
         IN  IF Len(tokenSplit) # 2 THEN AbortWithStatus(c, StatusUnauthorized)
             ELSE LET parsed == ParseWithClaims(tokenSplit[2], jwtSecret, c.now)
                  IN  IF parsed.err # NIL \/ ~parsed.valid
                      THEN AbortWithStatus(c, StatusForbidden)
                      ELSE CallNext(SetUser(c, parsed.claims))

\* The handler optionalJWTMiddleware(jwtSecret) returns, run on the context c.
OptionalHandler(c, jwtSecret) ==
    IF c.header = <<>> THEN CallNext(c)
    ELSE LET tokenSplit == Split(c.header, " ")
         IN  IF Len(tokenSplit) # 2 THEN CallNext(c)
             ELSE LET parsed == ParseWithClaims(tokenSplit[2], jwtSecret, c.now)
                  IN  IF parsed.err # NIL \/ ~parsed.valid
                      THEN CallNext(c)
                      ELSE CallNext(SetUser(c, parsed.claims))

\* The handler gin.BasicAuth(gin.Accounts{email: password}) returns, run on
\* the context c: the header has to be the account's authorization header
\* byte for byte; a request that is let through has "user" (gin.AuthUserKey)
\* set to the account name, a string, and the handler does not call c.Next()
\* itself.
BasicAuth(c, email, password) ==
    IF c.header = <<>> \/ c.header # authorizationHeader(email, password)
    THEN AbortWithStatus([c EXCEPT !.wwwAuthenticate = "Basic realm=\"Authorization Required\""],
                         StatusUnauthorized)
    ELSE SetUser(c, [string |-> email])

\* net.ParseIP(ip) != nil on the address literals of the requests.
ParseIP ==
    [ip \in {"203.0.113.7", "2001:db8::1", "198.51.100.9", "999.1.1.1", "unknown"}
        |-> ip \in {"203.0.113.7", "2001:db8::1", "198.51.100.9"}]

\* ip is one address literal that net.ParseIP accepts.
IsIP(ip) == Len(ip) = 1 /\ ip[1] \in DOMAIN ParseIP /\ ParseIP[ip[1]]

\* getClientIP: the first entry of X-Forwarded-For when it is an address,
\* else X-Real-IP when it is one, else what c.ClientIP() gives.
getClientIP(forwardedFor, realIP, ginClientIP) ==
    LET ips == Split(forwardedFor, ",") IN
    IF forwardedFor # <<>> /\ Len(ips) > 0 /\ IsIP(TrimSpace(ips[1]))
    THEN TrimSpace(ips[1])
    ELSE IF realIP # <<>> /\ IsIP(TrimSpace(realIP))
    THEN TrimSpace(realIP)
    ELSE ginClientIP

\* The values of the X-Forwarded-For header.
ForwardedForHeaders ==
    { <<>>,
      <<"203.0.113.7">>,
      <<" ", "2001:db8::1", " ", ",", " ", "198.51.100.9">>,
      <<"unknown", ",", "203.0.113.7">>,
      <<"203.0.113.7", " ", "203.0.113.7">> }

\* The values of the X-Real-IP header.
RealIPHeaders == { <<>>, <<"198.51.100.9", " ">>, <<"999.1.1.1">> }

\* A middleware runs on a request no handler has aborted, each at most once.
CanRun(name) ==
    /\ http.pc = "ready"
    /\ ~http.aborted
    /\ name \notin Range(http.chain)

\* The context after the middleware name has run and left it as c.
Ran(c, name) == [c EXCEPT !.chain = Append(http.chain, name)]

\* A request goes through JWTMiddleware(JwtSecret).
JWTMiddleware ==
    /\ CanRun("JWTMiddleware")
    /\ http' = Ran(RequiredHandler(http, JwtSecret), "JWTMiddleware")
    /\ UNCHANGED core
    /\ UNCHANGED <<match, stub, history, proc, sink, saved, scan>>

\* A request goes through optionalJWTMiddleware(JwtSecret).
optionalJWTMiddleware ==
    /\ CanRun("optionalJWTMiddleware")
    /\ http' = Ran(OptionalHandler(http, JwtSecret), "optionalJWTMiddleware")
    /\ UNCHANGED core
    /\ UNCHANGED <<match, stub, history, proc, sink, saved, scan>>

\* A request goes through SwaggerBasicAuth(SwaggerEmail, SwaggerPassword).
SwaggerBasicAuth ==
    /\ CanRun("SwaggerBasicAuth")
    /\ http' = Ran(BasicAuth(http, SwaggerEmail, SwaggerPassword), "SwaggerBasicAuth")
    /\ UNCHANGED core
    /\ UNCHANGED <<match, stub, history, proc, sink, saved, scan>>

\* A request goes through clientIPMiddleware(): "client_ip" is set to what
\* getClientIP gives on the request's headers, and the next handler runs.
clientIPMiddleware ==
    /\ CanRun("clientIPMiddleware")
    /\ \E forwardedFor \in ForwardedForHeaders, realIP \in RealIPHeaders :
          LET ip == getClientIP(forwardedFor, realIP, <<"192.0.2.1">>)
          IN  http' = Ran(CallNext([http EXCEPT !.clientIPSet = TRUE, !.clientIP = ip]),
                          "clientIPMiddleware")
    /\ UNCHANGED core
    /\ UNCHANGED <<match, stub, history, proc, sink, saved, scan>>

NextJWT ==
    \/ JWTMiddleware
    \/ optionalJWTMiddleware
    \/ SwaggerBasicAuth
    \/ clientIPMiddleware

SpecJWT == InitJWT /\ [][NextJWT]_vars

\* The number of spaces in the header.
Spaces(header) == Cardinality({ i \in 1..Len(header) : header[i] = " " })

\* The header is one word, one space and a token that is header.claims.signature
\* with an HMAC alg, the signature of header.claims under the secret, an
\* expiry not before now and an issue time not after now.
CarriesValidToken(header, jwtSecret, now) ==
    \E i \in 1..Len(header) :
        /\ header[i] = " "
        /\ Spaces(header) = 1
        /\ \E h \in DOMAIN Alg, c \in DOMAIN DecodeClaims :
              /\ SubSeq(header, i + 1, Len(header)) = SignedToken(h, c, jwtSecret)
              /\ Alg[h] \in {"HS256", "HS384", "HS512"}
              /\ DecodeClaims[c].ExpirationTime >= now
              /\ DecodeClaims[c].IssuedAt <= now

UserOf(header) == DecodeClaims[header[Len(header) - 2]]

\* The middleware name runs in this step.
Runs(name) == http'.chain = Append(http.chain, name)

\* The step leaves "user" and the count of c.Next() calls as they were.
LeavesUserAndNext ==
    /\ http'.nextCalls = http.nextCalls
    /\ http'.userSet = http.userSet
    /\ http'.user = http.user

\* C23: JWTMiddleware aborts with 401 on a missing header or one that is
\* not two space-separated parts, aborts with 403 on a token that is not
\* valid, and in both cases neither calls the next handler nor sets "user";
\* it calls the next handler, once and with "user" set to the claims, only
\* for a valid HMAC-signed unexpired token.  optionalJWTMiddleware calls the
\* next handler once in every case, sets "user" to the claims when the token
\* is valid and leaves "user" as it was otherwise.
C23_JWTMiddlewareGatesOnValidToken ==
    [][ /\ Runs("JWTMiddleware") =>
              IF http.header = <<>> \/ Spaces(http.header) # 1
              THEN http'.aborted /\ http'.status = StatusUnauthorized /\ LeavesUserAndNext
              ELSE IF ~CarriesValidToken(http.header, JwtSecret, http.now)
              THEN http'.aborted /\ http'.status = StatusForbidden /\ LeavesUserAndNext
              ELSE /\ ~http'.aborted
                   /\ http'.nextCalls = http.nextCalls + 1
                   /\ http'.userSet
                   /\ http'.user = UserOf(http.header)
        /\ Runs("optionalJWTMiddleware") =>
              /\ http'.nextCalls = http.nextCalls + 1
              /\ ~http'.aborted
              /\ IF CarriesValidToken(http.header, JwtSecret, http.now)
                 THEN http'.userSet /\ http'.user = UserOf(http.header)
                 ELSE http'.userSet = http.userSet /\ http'.user = http.user
      ]_vars

C23_Witness ==
    /\ http.pc = "ready"
    /\ http.chain = <<"clientIPMiddleware", "optionalJWTMiddleware", "JWTMiddleware">>
    /\ http.header = <<"B", "e", "a", "r", "e", "r", " ">> \o SignedToken("hdrHS256", "clmExpired", JwtSecret)
    /\ http.now = 200
    /\ http.aborted
    /\ http.status = StatusForbidden
    /\ http.nextCalls = 2
    /\ ~http.userSet

====
